---- MODULE Spec2Model ----
(***************************************************************************)
(* Mission execution and route compilation of the room_mapping package:    *)
(* MissionExecutorAgent (mission_executor_agent.py) driven tick by tick,   *)
(* the mission text it parses, and the plan compiler and text renderer of  *)
(* route_to_agents.py.                                                     *)
(*                                                                         *)
(* Text is modelled at the level of whitespace separated tokens: a line is *)
(* a record [n, toks] where n is the leading "N." ordinal (-1 when the     *)
(* line does not start with digits and a dot) and toks the tokens after    *)
(* it.  Regular expressions are evaluated on these tokens.                 *)
(***************************************************************************)
EXTENDS Integers, Sequences, FiniteSets, TLC

\* ------------------------------------------------------------------ bounds
MaxLines == 1
MaxMtime == 2
MaxWaypoints == 3
GridW == 3
GridH == 2
MaxRequests == 2
MaxPath == 4
MaxTiles == 5   \* names a tile manager registers at most

\* ------------------------------------------------------- program constants
max_scan_steps == 30
NearDefault == 2
NearSwitch == 3
AxisCost == 10000
DiagCost == 14140
FallbackSize == 40
GRID_RES == 15

\* ----------------------------------------------------------------- tokens
\* tokens that are not a run of word characters (\w+)
NonWords == {"(0, 0)", "(1, 0)", "Note:"}

IsWord(tok) == tok \notin NonWords

\* str.lower() followed by a substring test, on the agent names in use
LowerContains(name, key) ==
    CASE key = "navigation" -> name \in {"NavigationAgent", "navigationagent"}
      [] key = "door"       -> name \in {"DoorAgent", "dooragent"}
      [] key = "scan"       -> name \in {"ScanAgent", "scanagent"}
      [] key = "wall"       -> name \in {"WallAgent", "wallagent"}
      [] OTHER              -> FALSE

\* the token ends with the keyword, so that "kw\s+" can match at its end
EndsWith(tok, kw) ==
    CASE kw = "to" -> tok \in {"to", "into"}
      [] OTHER     -> tok = kw

\* ------------------------------------------------------ parse_mission_steps
LineMatches(line) ==
    /\ line.n >= 0
    /\ Len(line.toks) >= 4
    /\ line.toks[1] = "Activate"
    /\ IsWord(line.toks[2])
    /\ line.toks[3] = "to"

AgentTypeOf(agent_name) ==
    IF LowerContains(agent_name, "navigation") THEN "NAVIGATION"
    ELSE IF LowerContains(agent_name, "door") THEN "DOOR"
    ELSE IF LowerContains(agent_name, "scan") THEN "SCAN"
    ELSE IF LowerContains(agent_name, "wall") THEN "WALL"
    ELSE "UNKNOWN"

\* one pattern "kw\s+(?:the\s+)?(\w+(?:\s+\w+)?)" tried at token i
PatternAt(action, i, kw) ==
    LET n == Len(action)
        j == IF i + 2 <= n /\ action[i + 1] = "the" /\ IsWord(action[i + 2])
             THEN i + 2 ELSE i + 1
    IN  IF EndsWith(action[i], kw) /\ j <= n /\ IsWord(action[j])
        THEN IF j + 1 <= n /\ IsWord(action[j + 1])
             THEN <<action[j], action[j + 1]>>
             ELSE <<action[j]>>
        ELSE <<>>

\* re.search: the leftmost position at which the pattern matches
RECURSIVE SearchFrom(_, _, _)
SearchFrom(action, i, kw) ==
    IF i > Len(action) THEN <<>>
    ELSE IF PatternAt(action, i, kw) # <<>> THEN PatternAt(action, i, kw)
    ELSE SearchFrom(action, i + 1, kw)

TargetPatterns == <<"to", "into", "enter", "through">>

RECURSIVE TryPatterns(_, _)
TryPatterns(action, k) ==
    IF k > Len(TargetPatterns) THEN <<>>
    ELSE IF SearchFrom(action, 1, TargetPatterns[k]) # <<>>
         THEN SearchFrom(action, 1, TargetPatterns[k])
    ELSE TryPatterns(action, k + 1)

\* the location as a sequence of one or two words; <<>> stands for None
extract_target_location(action) == TryPatterns(action, 1)

MissionStep(line) ==
    [step_number        |-> line.n,
     agent_type         |-> AgentTypeOf(line.toks[2]),
     action_description |-> SubSeq(line.toks, 4, Len(line.toks)),
     target_location    |-> extract_target_location(SubSeq(line.toks, 4, Len(line.toks))),
     completed          |-> FALSE]

\* parse_mission_steps giving up at the first line that does not match
RECURSIVE parse_mission_steps_stopping(_)
parse_mission_steps_stopping(content) ==
    IF content = <<>> THEN <<>>
    ELSE IF LineMatches(Head(content))
         THEN <<MissionStep(Head(content))>> \o parse_mission_steps_stopping(Tail(content))
         ELSE <<>>

RECURSIVE parse_mission_steps(_)
parse_mission_steps(content) ==
    IF content = <<>> THEN <<>>
    ELSE IF LineMatches(Head(content))
         THEN <<MissionStep(Head(content))>> \o parse_mission_steps(Tail(content))
         ELSE parse_mission_steps(Tail(content))

\* ------------------------------------------------------------ room registry
\* room_data as load_room_data leaves it: lower-cased room name -> bbox and
\* doors, as unified_rooms.json has them.  The doors of the kitchen are one
\* coordinate [x, y], the hallway has none ([]), the doors of the bedroom are
\* a list of two coordinates and those of the garage a list of one; pairs
\* tells a list of coordinates from a coordinate, as the types of Python do.
RoomKeys == <<"kitchen", "hallway", "bedroom", "garage">>

room_data ==
    [r \in {"kitchen", "hallway", "bedroom", "garage"} |->
        CASE r = "kitchen" -> [bbox |-> <<0, 0, 2, 2>>, doors |-> <<0, 0>>,
                               pairs |-> FALSE]
          [] r = "hallway" -> [bbox |-> <<2, 0, 4, 2>>, doors |-> <<>>,
                               pairs |-> FALSE]
          [] r = "bedroom" -> [bbox |-> <<0, 2, 2, 4>>, doors |-> <<<<0, 2>>, <<1, 2>>>>,
                               pairs |-> TRUE]
          [] r = "garage"  -> [bbox |-> <<2, 2, 4, 4>>, doors |-> <<<<2, 2>>>>,
                               pairs |-> TRUE]]

\* the center load_room_data computes of a bbox
Center(bbox) == <<(bbox[1] + bbox[3]) \div 2, (bbox[2] + bbox[4]) \div 2>>

\* the alias table of get_door_position, restricted to the names in use
room_mapping(room_lower) ==
    CASE room_lower = <<"hall">>    -> <<"hallway">>
      [] room_lower = <<"hallway">> -> <<"hallway">>
      [] OTHER                      -> room_lower

\* "a in b" of two lower-cased names, each a sequence of words
NameIn(a, b) ==
    \E i \in 1..Len(b) : i + Len(a) - 1 <= Len(b) /\ SubSeq(b, i, i + Len(a) - 1) = a

RECURSIVE PartialMatch(_, _)
PartialMatch(room_lower, k) ==
    IF k > Len(RoomKeys) THEN "no_room"
    ELSE IF NameIn(room_lower, <<RoomKeys[k]>>) \/ NameIn(<<RoomKeys[k]>>, room_lower)
         THEN RoomKeys[k]
    ELSE PartialMatch(room_lower, k + 1)

\* str.lower() on the words of a room name
Lower(tok) ==
    CASE tok = "Kitchen" -> "kitchen"
      [] tok = "Hallway" -> "hallway"
      [] tok = "Hall"    -> "hall"
      [] tok = "Bedroom" -> "bedroom"
      [] tok = "Garage"  -> "garage"
      [] OTHER           -> tok

\* room_name.lower(), word by word
LowerName(room_name) == [i \in 1..Len(room_name) |-> Lower(room_name[i])]

\* lines 311-321 of get_door_position: the key of the room in room_data
door_key(room_name) ==
    LET mapped == room_mapping(LowerName(room_name))
    IN  IF Len(mapped) = 1 /\ mapped[1] \in DOMAIN room_data
        THEN mapped[1] ELSE PartialMatch(mapped, 1)

\* the door coordinate of the room, or <<>> for None
get_door_position(room_name) ==
    LET key == door_key(room_name)
    IN  IF key = "no_room" THEN <<>>
        ELSE IF Len(room_data[key].doors) >= 2
             THEN <<room_data[key].doors[1], room_data[key].doors[2]>>
             ELSE <<>>

\* line 360 of is_near_door raises a TypeError: what get_door_position
\* returned holds two coordinates where two numbers are expected
door_test_raises(room_name) ==
    /\ get_door_position(room_name) # <<>>
    /\ room_data[door_key(room_name)].pairs

\* get_room_coordinates: the center of the room, or <<>> for None
get_room_coordinates(room_name) ==
    IF room_name = <<>> THEN <<>>
    ELSE IF Len(room_name) = 1 /\ LowerName(room_name)[1] \in DOMAIN room_data
    THEN Center(room_data[LowerName(room_name)[1]].bbox)
    ELSE IF PartialMatch(LowerName(room_name), 1) = "no_room" THEN <<>>
    ELSE Center(room_data[PartialMatch(LowerName(room_name), 1)].bbox)

\* the tiles of the bbox that are on the map, row by row as the loops of
\* get_closest_room_tile visit them
TilesOf(bbox, global_map) ==
    LET x1 == IF bbox[1] > 0 THEN bbox[1] ELSE 0
        y1 == IF bbox[2] > 0 THEN bbox[2] ELSE 0
        x2 == IF bbox[3] < global_map.w THEN bbox[3] ELSE global_map.w
        y2 == IF bbox[4] < global_map.h THEN bbox[4] ELSE global_map.h
    IN  IF x2 <= x1 \/ y2 <= y1 THEN <<>>
        ELSE [k \in 1..((x2 - x1) * (y2 - y1)) |->
                <<x1 + ((k - 1) % (x2 - x1)), y1 + ((k - 1) \div (x2 - x1))>>]

\* lines 279-288: the first of the tiles at the least distance
ClosestOf(tiles, current_pos) ==
    LET d(i) == (IF tiles[i][1] < current_pos[1] THEN current_pos[1] - tiles[i][1]
                 ELSE tiles[i][1] - current_pos[1])
                + (IF tiles[i][2] < current_pos[2] THEN current_pos[2] - tiles[i][2]
                   ELSE tiles[i][2] - current_pos[2])
    IN  tiles[CHOOSE i \in 1..Len(tiles) :
                 \A j \in 1..Len(tiles) : d(i) < d(j) \/ (d(i) = d(j) /\ i <= j)]

\* get_closest_room_tile; global_map is <<>> for None or <<the map>>, the
\* values of the map being those of the observed map (-1 unknown, 0 free
\* space, 2 entry point, 4 open door)
get_closest_room_tile(room_name, current_pos, global_map) ==
    LET Accessible(t) == global_map[1].code[t] \in {-1, 0, 2, 4}
    IN  IF ~(Len(room_name) = 1 /\ LowerName(room_name)[1] \in DOMAIN room_data)
        THEN get_room_coordinates(room_name)
        ELSE IF global_map = <<>>
        THEN Center(room_data[LowerName(room_name)[1]].bbox)
        ELSE IF SelectSeq(TilesOf(room_data[LowerName(room_name)[1]].bbox,
                                  global_map[1]), Accessible) = <<>>
        THEN Center(room_data[LowerName(room_name)[1]].bbox)
        ELSE ClosestOf(SelectSeq(TilesOf(room_data[LowerName(room_name)[1]].bbox,
                                         global_map[1]), Accessible), current_pos)

Abs(v) == IF v < 0 THEN -v ELSE v

\* is_near_door testing against NearSwitch whatever max_distance is
is_near_door_within_three(current_pos, room_name, max_distance) ==
    LET door_pos == get_door_position(room_name)
    IN  IF door_pos = <<>> THEN TRUE
        ELSE Abs(current_pos[1] - door_pos[1]) + Abs(current_pos[2] - door_pos[2])
                 <= NearSwitch

is_near_door(current_pos, room_name, max_distance) ==
    LET door_pos == get_door_position(room_name)
    IN  IF door_pos = <<>> THEN TRUE
        ELSE Abs(current_pos[1] - door_pos[1]) + Abs(current_pos[2] - door_pos[2])
                 <= max_distance

\* ------------------------------------------------------- MissionExecutorAgent
VARIABLES
    mission_steps,        \* self.mission_steps
    current_step_index,   \* self.current_step_index, 0-based
    mission_loaded,       \* self.mission_loaded
    last_mission_time,    \* self.last_mission_time
    active_agent,         \* self.active_agent: "none" or the sub-agent object
    active_agent_type,    \* self.active_agent_type: "None" or an AgentType
    scan_steps,           \* self.scanner.scan_steps
    execution_state,      \* self.execution_state of the executor
    mission_file,         \* agent_commands.txt: [exists, mtime]
    mission_text,         \* what the read of the last loaded mission returned
    \* what the last operation, when it was a call of get_actions, read and did
    \* (NoTick after any other operation):
    positions,            \* observations['positions'][0], when a door test read it
    action,               \* the action returned, "none" when no tick
    invoked,              \* the sub-agent that computed the action
    complete,             \* what is_agent_complete returned
    raised,               \* the tick ended in the except branch (set_error)
    loaded,               \* load_mission returned True
    dispatched,           \* index read as current_step in the last tick, or -1
    goal_position         \* observations['goal_position'] as the executor handed
                          \* it to the Navigation sub-agent, <<>> when it set none

\* route_to_agents.py and the text it hands to the executor's parser
VARIABLES
    waypoints,            \* path_dict["waypoints"]
    target,               \* TARGET, "" for None
    include_wall,         \* INCLUDE_WALL_STEP
    plan,                 \* the steps of build_agent_plan's result
    commands_txt,         \* the lines of agent_commands.txt as plan_to_text renders them
    parsed,               \* parse_mission_steps of that text
    stage                 \* how far the compilation has got

\* path_planner.py: the planner, the files it reads and writes, its loop
VARIABLES
    house_map,            \* HOUSE_MAP: [state, grid]
    unified_rooms,        \* UNIFIED_ROOMS: [state, rooms]
    planner_rooms,        \* planner.rooms
    planner_grid,         \* planner.grid: <<>> for None, else <<the grid>>
    start_pos,            \* start_pos of main
    goal_cell,            \* the goal handed to a_star
    object_location,      \* OBJECT_LOCATION: [exists, mtime, room]
    last_mod,             \* last_mod of main
    planned_path,         \* PLANNED_PATH: <<>> while not written, else <<the plan>>
    plan_targets,         \* door_targets of the last call of plan
    plan_paths,           \* what a_star returned for each of them
    best_path,            \* best_path of the last call of plan
    plan_calls,           \* how many times main called plan
    planner_pc,           \* where main is: "load", "loop" or "stopped"
    compiled,             \* the results of the compilations of best_path so far
    clock                 \* time.strftime

\* path_planner.py: a_star while it runs
VARIABLES
    expanded              \* open_q after the first pass of the while loop, in <<>>

\* route_to_agents.py: the files it writes beside agent_commands.txt, and a
\* reader of the pair
VARIABLES
    commands_json,        \* OUT_JSON: <<>> while absent, else <<the plan>>
    tmp_json,             \* OUT_JSON + ".tmp": [exists, text], text what is in it
    tmp_txt,              \* OUT_TXT + ".tmp": [exists, text]
    seen                  \* what the reader last read: <<>> or <<[json, txt]>>

\* pixel_room_mapper.py: the tile manager
VARIABLES
    tiles                 \* [tile_registry, id_to_name, next_tile_id]

exec_vars == <<mission_steps, current_step_index, mission_loaded, last_mission_time,
               active_agent, active_agent_type, scan_steps, execution_state,
               mission_file, mission_text, positions, action, invoked, complete,
               raised, loaded, dispatched, goal_position>>

compile_vars == <<waypoints, target, include_wall, plan, commands_txt, parsed, stage>>

planner_vars ==
    <<house_map, unified_rooms, planner_rooms, planner_grid, start_pos, goal_cell,
      object_location, last_mod, planned_path, plan_targets, plan_paths, best_path,
      plan_calls, planner_pc, compiled, clock>>

search_vars == <<expanded>>

writer_vars == <<commands_json, tmp_json, tmp_txt, seen>>

tile_vars == <<tiles>>

vars == <<exec_vars, compile_vars, planner_vars, search_vars, writer_vars, tile_vars>>

\* the executor's own fields as one record
Self ==
    [mission_steps      |-> mission_steps,
     current_step_index |-> current_step_index,
     mission_loaded     |-> mission_loaded,
     last_mission_time  |-> last_mission_time,
     active_agent       |-> active_agent,
     active_agent_type  |-> active_agent_type,
     scan_steps         |-> scan_steps,
     execution_state    |-> execution_state]

\* the places of a tick at which an exception can be raised:
\*   observe  - reading the observation or resetting the sub-agent to activate
\*   activate - computing the goal after the sub-agent has been assigned
\*   execute  - inside execute_active_agent (or the wall fallback)
ExcPoints == {"none", "observe", "activate", "execute"}

\* load_mission gets as far as reading the file
IsNewer(self, file) ==
    /\ file.exists
    /\ file.mtime > self.last_mission_time

\* load_mission returns True; content is what f.read().strip() returns
NewMission(self, file, content) ==
    /\ IsNewer(self, file)
    /\ content # <<>>

\* variant of load_mission: the new steps are appended to the old ones
load_mission_merging(self, file, content) ==
    IF NewMission(self, file, content)
    THEN [self EXCEPT !.mission_steps      = self.mission_steps \o
                                               parse_mission_steps(content),
                      !.mission_loaded     = TRUE,
                      !.last_mission_time  = file.mtime]
    ELSE self

load_mission(self, file, content) ==
    IF NewMission(self, file, content)
    THEN [self EXCEPT !.mission_steps      = parse_mission_steps(content),
                      !.current_step_index = 0,
                      !.mission_loaded     = TRUE,
                      !.last_mission_time  = file.mtime]
    ELSE self

switch_agent(self, step, current_pos, exc) ==
    CASE step.agent_type = "NAVIGATION" ->
            IF step.target_location # <<>> /\ exc = "activate"
            THEN [self   |-> [self EXCEPT !.active_agent = "navigation_agent"],
                  raised |-> TRUE]
            ELSE [self   |-> [self EXCEPT !.active_agent      = "navigation_agent",
                                          !.active_agent_type = "NAVIGATION"],
                  raised |-> FALSE]
      [] step.agent_type = "DOOR" ->
            IF /\ step.target_location # <<>>
               /\ get_door_position(step.target_location) # <<>>
               /\ ~is_near_door(current_pos, step.target_location, NearSwitch)
            THEN [self   |-> [self EXCEPT !.active_agent      = "navigation_agent",
                                          !.active_agent_type = "NAVIGATION"],
                  raised |-> FALSE]
            ELSE [self   |-> [self EXCEPT !.active_agent      = "door_agent",
                                          !.active_agent_type = "DOOR"],
                  raised |-> FALSE]
      [] step.agent_type = "WALL" ->
            [self   |-> [self EXCEPT !.active_agent      = "wall_agent",
                                     !.active_agent_type = "WALL"],
             raised |-> FALSE]
      [] step.agent_type = "SCAN" ->
            [self   |-> [self EXCEPT !.scan_steps        = 0,
                                     !.active_agent      = "scanner",
                                     !.active_agent_type = "SCAN"],
             raised |-> FALSE]
      [] OTHER ->
            [self   |-> [self EXCEPT !.active_agent_type = step.agent_type],
             raised |-> FALSE]

\* variant of activate: a Door step activates the Door sub-agent at once
activate_door_at_once(self, step, current_pos, exc) ==
    IF step.agent_type = "DOOR" /\ self.active_agent = "none"
    THEN [self   |-> [self EXCEPT !.active_agent      = "door_agent",
                                  !.active_agent_type = "DOOR"],
          raised |-> FALSE]
    ELSE IF self.active_agent_type # step.agent_type /\ self.active_agent = "none"
         THEN switch_agent(self, step, current_pos, exc)
         ELSE [self |-> self, raised |-> FALSE]

\* lines 385-414 of get_actions: which sub-agent, if any, is activated
activate(self, step, current_pos, exc) ==
    IF step.agent_type = "DOOR" /\ self.active_agent = "none"
    THEN IF step.target_location # <<>>
         THEN IF door_test_raises(step.target_location)
              THEN [self |-> self, raised |-> TRUE]
              ELSE IF ~is_near_door(current_pos, step.target_location, NearDefault)
              THEN [self   |-> [self EXCEPT !.active_agent      = "navigation_agent",
                                            !.active_agent_type = "NAVIGATION"],
                    raised |-> exc = "activate"]
              ELSE switch_agent(self, step, current_pos, exc)
         ELSE [self |-> self, raised |-> FALSE]
    ELSE IF self.active_agent_type # step.agent_type /\ self.active_agent = "none"
         THEN switch_agent(self, step, current_pos, exc)
         ELSE [self |-> self, raised |-> FALSE]

\* observations['goal_position'] after the activation of lines 385-414, <<>>
\* when the activation did not set it.  Where line 389 finds the agent not
\* near the door, get_door_position has returned a door, so line 399 sets it.
goal_on_activation(self, step, current_pos, global_map) ==
    IF step.target_location = <<>> \/ self.active_agent # "none" THEN <<>>
    ELSE IF step.agent_type = "DOOR"
    THEN IF ~is_near_door(current_pos, step.target_location, NearDefault)
         THEN get_door_position(step.target_location)
         ELSE <<>>
    ELSE IF step.agent_type = "NAVIGATION" /\ self.active_agent_type # "NAVIGATION"
    THEN IF get_door_position(step.target_location) # <<>>
         THEN get_door_position(step.target_location)
         ELSE IF get_closest_room_tile(step.target_location, current_pos,
                                       global_map) # <<>>
         THEN get_closest_room_tile(step.target_location, current_pos, global_map)
         ELSE get_room_coordinates(step.target_location)
    ELSE <<>>

\* lines 522-533 of execute_active_agent, Navigation being active: the goal
\* becomes the closest tile of the room of the step, or else its center
goal_on_execution(step, current_pos, global_map, goal) ==
    IF step.target_location = <<>> THEN goal
    ELSE IF get_closest_room_tile(step.target_location, current_pos, global_map) # <<>>
    THEN get_closest_room_tile(step.target_location, current_pos, global_map)
    ELSE IF get_room_coordinates(step.target_location) # <<>>
    THEN get_room_coordinates(step.target_location)
    ELSE goal

\* the goal that the Navigation sub-agent is called with in a tick on the
\* executor l, as the load attempt left it, that no call raises in
goal_handed(l, current_pos, global_map) ==
    IF l.current_step_index >= Len(l.mission_steps) THEN <<>>
    ELSE IF activate(l, l.mission_steps[l.current_step_index + 1], current_pos,
                     "none").self.active_agent_type # "NAVIGATION"
    THEN goal_on_activation(l, l.mission_steps[l.current_step_index + 1],
                            current_pos, global_map)
    ELSE goal_on_execution(l.mission_steps[l.current_step_index + 1], current_pos,
                           global_map,
                           goal_on_activation(l, l.mission_steps[l.current_step_index + 1],
                                              current_pos, global_map))

\* variant of get_scan_action: the scanner turns on every third call
get_scan_action_every_third(n) ==
    IF n >= max_scan_steps THEN "STAY"
    ELSE IF n % 3 = 0 THEN "TURN_RIGHT" ELSE "FORWARD"

\* RoomScanner.get_scan_action, n being scan_steps after its increment
get_scan_action(n) ==
    IF n >= max_scan_steps THEN "STAY"
    ELSE IF n % 4 = 0 THEN "TURN_RIGHT" ELSE "FORWARD"

\* the action a sub-agent's get_actions returns
SubAgentAction(agent) ==
    CASE agent = "navigation_agent" -> "nav_action"
      [] agent = "door_agent"       -> "door_action"
      [] agent = "wall_agent"       -> "wall_action"
      [] OTHER                      -> "STAY"

execute_active_agent(self, step, exc) ==
    IF self.active_agent_type = "SCAN"
    THEN IF exc = "execute"
         THEN [self |-> self, action |-> "STAY", invoked |-> "none", raised |-> TRUE]
         ELSE [self    |-> [self EXCEPT !.scan_steps = self.scan_steps + 1],
               action  |-> get_scan_action(self.scan_steps + 1),
               invoked |-> "scanner",
               raised  |-> FALSE]
    ELSE IF self.active_agent # "none"
         THEN [self    |-> self,
               action  |-> IF exc = "execute" THEN "STAY"
                           ELSE SubAgentAction(self.active_agent),
               invoked |-> self.active_agent,
               raised  |-> exc = "execute"]
         ELSE [self |-> self, action |-> "STAY", invoked |-> "none", raised |-> FALSE]

\* done: the active sub-agent left execution_state == COMPLETED
is_agent_complete(self, done) ==
    IF self.active_agent_type = "SCAN" THEN self.scan_steps >= max_scan_steps
    ELSE IF self.active_agent # "none" THEN done
    ELSE FALSE

\* variant of on_complete: a completion moves the cursor two steps on
on_complete_skipping(self, step, current_pos) ==
    [self   |-> [self EXCEPT
                    !.mission_steps[self.current_step_index + 1].completed = TRUE,
                    !.current_step_index = self.current_step_index + 2,
                    !.active_agent       = "none",
                    !.active_agent_type  = "None"],
     raised |-> FALSE]

\* variant of on_complete: the Door sub-agent follows the deferred navigation
\* without a second proximity test
on_complete_untested(self, step, current_pos) ==
    IF self.active_agent_type = "NAVIGATION" /\ step.agent_type = "DOOR"
    THEN [self   |-> [self EXCEPT !.active_agent      = "door_agent",
                                  !.active_agent_type = "DOOR"],
          raised |-> FALSE]
    ELSE [self   |-> [self EXCEPT
                        !.mission_steps[self.current_step_index + 1].completed = TRUE,
                        !.current_step_index = self.current_step_index + 1,
                        !.active_agent       = "none",
                        !.active_agent_type  = "None"],
          raised |-> FALSE]

\* lines 420-441 of get_actions, taken when is_agent_complete returned True
on_complete(self, step, current_pos) ==
    IF self.active_agent_type = "NAVIGATION" /\ step.agent_type = "DOOR"
    THEN IF step.target_location = <<>>
         THEN [self |-> self, raised |-> TRUE]     \* None.lower() in get_door_position
         ELSE IF door_test_raises(step.target_location)
         THEN [self |-> self, raised |-> TRUE]
         ELSE IF is_near_door(current_pos, step.target_location, NearDefault)
              THEN [self   |-> [self EXCEPT !.active_agent      = "door_agent",
                                            !.active_agent_type = "DOOR"],
                    raised |-> FALSE]
              ELSE [self   |-> [self EXCEPT !.active_agent      = "none",
                                            !.active_agent_type = "None"],
                    raised |-> FALSE]
    ELSE [self   |-> [self EXCEPT
                        !.mission_steps[self.current_step_index + 1].completed = TRUE,
                        !.current_step_index = self.current_step_index + 1,
                        !.active_agent       = "none",
                        !.active_agent_type  = "None"],
          raised |-> FALSE]

\* variant of Caught: the except branch gives the step up and moves on
Caught_moving_on(self, disp, inv) ==
    [self |-> [self EXCEPT !.current_step_index = self.current_step_index + 1],
     action |-> "STAY", invoked |-> inv, complete |-> FALSE,
     raised |-> TRUE, dispatched |-> disp]

\* the except branch: set_error and STAY, whatever was assigned before stays
Caught(self, disp, inv) ==
    [self |-> self, action |-> "STAY", invoked |-> inv, complete |-> FALSE,
     raised |-> TRUE, dispatched |-> disp]

\* lines 419-443 of get_actions: f is what on_complete made of the tick
after_complete(idx, e, f) ==
    IF f.raised THEN Caught(f.self, idx, e.invoked)
    ELSE [self |-> f.self, action |-> e.action, invoked |-> e.invoked,
          complete |-> TRUE, raised |-> FALSE, dispatched |-> idx]

\* lines 416-420 of get_actions: e is what execute_active_agent returned
after_execute(idx, step, current_pos, done, e) ==
    IF e.raised THEN Caught(e.self, idx, e.invoked)
    ELSE IF ~is_agent_complete(e.self, done)
         THEN [self |-> e.self, action |-> e.action, invoked |-> e.invoked,
               complete |-> FALSE, raised |-> FALSE, dispatched |-> idx]
         ELSE after_complete(idx, e, on_complete(e.self, step, current_pos))

\* lines 412-417 of get_actions: a is what the activation made of the tick
after_activate(idx, step, current_pos, exc, done, a) ==
    IF a.raised THEN Caught(a.self, idx, "none")
    ELSE after_execute(idx, step, current_pos, done,
                       execute_active_agent(a.self, step, exc))

\* lines 381-443 of get_actions, on the step under the cursor
dispatch(self, step, current_pos, exc, done) ==
    IF exc = "observe" THEN Caught(self, self.current_step_index, "none")
    ELSE after_activate(self.current_step_index, step, current_pos, exc, done,
                        activate(self, step, current_pos, exc))

\* variant of after_load: a finished mission falls back to wall following
after_load_exploring(l, current_pos, exc, done) ==
    IF l.mission_steps = <<>> \/ l.current_step_index >= Len(l.mission_steps)
    THEN IF exc = "execute" THEN Caught(l, -1, "wall_agent")
         ELSE [self |-> l, action |-> "wall_action", invoked |-> "wall_agent",
               complete |-> FALSE, raised |-> FALSE, dispatched |-> -1]
    ELSE dispatch(l, l.mission_steps[l.current_step_index + 1], current_pos, exc, done)

\* variant of after_load: without a mission the tick stays put
after_load_idling(l, current_pos, exc, done) ==
    IF l.mission_steps = <<>>
    THEN [self |-> l, action |-> "STAY", invoked |-> "none",
          complete |-> FALSE, raised |-> FALSE, dispatched |-> -1]
    ELSE IF l.current_step_index >= Len(l.mission_steps)
    THEN [self |-> [l EXCEPT !.execution_state = "COMPLETED"], action |-> "STAY",
          invoked |-> "none", complete |-> FALSE, raised |-> FALSE,
          dispatched |-> -1]
    ELSE dispatch(l, l.mission_steps[l.current_step_index + 1], current_pos, exc, done)

\* lines 371-443 of get_actions: l is the executor after the load attempt
after_load(l, current_pos, exc, done) ==
    IF l.mission_steps = <<>>
    THEN IF exc = "execute" THEN Caught(l, -1, "wall_agent")
         ELSE [self |-> l, action |-> "wall_action", invoked |-> "wall_agent",
               complete |-> FALSE, raised |-> FALSE, dispatched |-> -1]
    ELSE IF l.current_step_index >= Len(l.mission_steps)
    THEN [self |-> [l EXCEPT !.execution_state = "COMPLETED"], action |-> "STAY",
          invoked |-> "none", complete |-> FALSE, raised |-> FALSE,
          dispatched |-> -1]
    ELSE dispatch(l, l.mission_steps[l.current_step_index + 1], current_pos, exc, done)

\* lines 366-369 of get_actions
attempt_load(self, file, content) ==
    IF ~self.mission_loaded \/ file.exists THEN load_mission(self, file, content)
    ELSE self

get_actions(self, file, content, current_pos, exc, done) ==
    after_load(attempt_load(self, file, content), current_pos, exc, done)

\* variant of reset: the cursor is kept
reset_keeping_cursor(self) ==
    [self EXCEPT !.mission_steps      = <<>>,
                 !.mission_loaded     = FALSE,
                 !.active_agent       = "none",
                 !.active_agent_type  = "None",
                 !.scan_steps         = 0,
                 !.execution_state    = "IDLE"]

reset(self) ==
    [self EXCEPT !.mission_steps      = <<>>,
                 !.current_step_index = 0,
                 !.mission_loaded     = FALSE,
                 !.active_agent       = "none",
                 !.active_agent_type  = "None",
                 !.scan_steps         = 0,
                 !.execution_state    = "IDLE"]

\* --------------------------------------------------------------- environment
\* where the agent stands: cells at Manhattan distance 2, 3 and 4 of the door
\* at <<0, 0>>, one on each side of the thresholds NearDefault and NearSwitch
Positions == {<<1, 1>>, <<2, 1>>, <<2, 2>>}

\* the lines a mission file is made of, without their ordinal
NavLine      == <<"Activate", "NavigationAgent", "to", "navigate", "to", "the", "Kitchen">>
NavPlanLine  == <<"Activate", "NavigationAgent", "from", "(0, 0)", "in", "Hallway",
                  "to", "entrance", "of", "Kitchen", "at", "(1, 0)">>
DoorLine     == <<"Activate", "DoorAgent", "to", "open", "and", "enter", "Kitchen">>
DoorExitLine == <<"Activate", "DoorAgent", "to", "exit", "the", "Kitchen">>
ScanLine     == <<"Activate", "ScanAgent", "to", "scan", "Kitchen">>
UnknownLine  == <<"Activate", "PatrolAgent", "to", "patrol">>

\* NavPlanLine is the one line that parse_mission_steps does not match
MissionLines ==
    {NavLine, NavPlanLine, DoorLine, DoorExitLine, ScanLine, UnknownLine}

\* the texts of at most max lines out of lines, numbered 1..k
TextsOf(lines, max) ==
    UNION {{[i \in 1..k |-> [n |-> i, toks |-> t[i]]] : t \in [1..k -> lines]}
           : k \in 0..max}

MissionTexts == TextsOf(MissionLines, MaxLines)

\* what a sub-agent call of the tick does: raise at one of ExcPoints, or return
\* leaving the sub-agent's execution_state COMPLETED (done) or not
Outcomes ==
    {<<"none", FALSE>>, <<"none", TRUE>>, <<"observe", FALSE>>,
     <<"activate", FALSE>>, <<"execute", FALSE>>}

\* the tick tests the distance to a door
UsesPosition(self) ==
    /\ self.current_step_index < Len(self.mission_steps)
    /\ self.mission_steps[self.current_step_index + 1].agent_type = "DOOR"
    /\ self.mission_steps[self.current_step_index + 1].target_location # <<>>
    /\ self.active_agent = "none" \/ self.active_agent_type = "NAVIGATION"

\* the tick may look for the tiles of a room on the observed map: lines 399
\* and 524 call get_closest_room_tile, which reads the map at line 259 for
\* a room that room_data has under its own name
ReadsMap(self) ==
    /\ self.current_step_index < Len(self.mission_steps)
    /\ Len(self.mission_steps[self.current_step_index + 1].target_location) = 1
    /\ LowerName(self.mission_steps[self.current_step_index + 1].target_location)[1]
          \in DOMAIN room_data
    /\ \/ self.active_agent_type = "NAVIGATION"
       \/ /\ self.active_agent = "none"
          /\ self.mission_steps[self.current_step_index + 1].agent_type
                = "NAVIGATION"

\* observations.get('global_map'): None, or a map of tiles not yet observed
GlobalMaps ==
    {<<>>, <<[w |-> 4, h |-> 4, code |-> [c \in (0..3) \X (0..3) |-> -1]]>>}

NoTick ==
    /\ positions = <<0, 0>>
    /\ action = "none"
    /\ invoked = "none"
    /\ complete = FALSE
    /\ raised = FALSE
    /\ loaded = FALSE
    /\ dispatched = -1
    /\ goal_position = <<>>

ClearTick ==
    /\ positions' = <<0, 0>>
    /\ action' = "none"
    /\ invoked' = "none"
    /\ complete' = FALSE
    /\ raised' = FALSE
    /\ loaded' = FALSE
    /\ dispatched' = -1
    /\ goal_position' = <<>>

ExecInit ==
    /\ mission_steps = <<>>
    /\ current_step_index = 0
    /\ mission_loaded = FALSE
    /\ last_mission_time = 0
    /\ active_agent = "none"
    /\ active_agent_type = "None"
    /\ scan_steps = 0
    /\ execution_state = "IDLE"
    /\ mission_file = [exists |-> FALSE, mtime |-> 0]
    /\ mission_text = <<>>
    /\ NoTick

\* a fresh DynamicTileManager, lines 20-41
TilesFresh ==
    [tile_registry |-> [n \in {<<"free_space">>, <<"wall">>, <<"camera">>, <<"door">>} |->
                          CASE n = <<"free_space">> -> 0
                            [] n = <<"wall">>       -> 1
                            [] n = <<"camera">>     -> 2
                            [] n = <<"door">>       -> 3],
     id_to_name    |-> [c \in 0..3 |->
                          CASE c = 0 -> <<"free_space">>
                            [] c = 1 -> <<"wall">>
                            [] c = 2 -> <<"camera">>
                            [] c = 3 -> <<"door">>],
     next_tile_id  |-> 4]

NoFile == [exists |-> FALSE, text |-> <<>>]

\* a_star has not run, route_to_agents has left no file but the text of
\* commands_txt, nothing was read, and the tile manager is fresh
OthersIdle ==
    /\ expanded = <<>>
    /\ commands_json = <<>>
    /\ tmp_json = NoFile
    /\ tmp_txt = NoFile
    /\ seen = <<>>
    /\ tiles = TilesFresh

CompileIdle ==
    /\ waypoints = <<>>
    /\ target = ""
    /\ include_wall = FALSE
    /\ plan = <<>>
    /\ commands_txt = <<>>
    /\ parsed = <<>>
    /\ stage = "idle"

\* the planner has no grid
NoGrid == [w |-> 0, h |-> 0, code |-> << >>]

\* PathPlanner.__init__, and main before its first statement
PlannerFresh ==
    /\ planner_rooms = <<>>
    /\ planner_grid = <<>>
    /\ goal_cell = <<0, 0>>
    /\ object_location = [exists |-> FALSE, mtime |-> 0, room |-> "none"]
    /\ last_mod = 0
    /\ planned_path = <<>>
    /\ plan_targets = <<>>
    /\ plan_paths = <<>>
    /\ best_path = <<>>
    /\ plan_calls = 0
    /\ compiled = <<>>
    /\ clock = 0

\* no planner is running
PlannerIdle ==
    /\ PlannerFresh
    /\ house_map = [state |-> "missing", grid |-> NoGrid]
    /\ unified_rooms = [state |-> "missing", rooms |-> <<>>]
    /\ start_pos = <<0, 0>>
    /\ planner_pc = "idle"

Init == ExecInit /\ CompileIdle /\ PlannerIdle /\ OthersIdle

\* the assignments of one tick: r is what get_actions made of it, file the
\* mission file it found and content what reading it returned
TickResult(r, file, content, p, goal) ==
    /\ mission_steps' = r.self.mission_steps
    /\ current_step_index' = r.self.current_step_index
    /\ mission_loaded' = r.self.mission_loaded
    /\ last_mission_time' = r.self.last_mission_time
    /\ active_agent' = r.self.active_agent
    /\ active_agent_type' = r.self.active_agent_type
    /\ scan_steps' = r.self.scan_steps
    /\ execution_state' = r.self.execution_state
    /\ mission_file' = file
    /\ mission_text' = IF NewMission(Self, file, content)
                       THEN content ELSE mission_text
    /\ positions' = p
    /\ action' = r.action
    /\ invoked' = r.invoked
    /\ complete' = r.complete
    /\ raised' = r.raised
    /\ loaded' = NewMission(Self, file, content)
    /\ dispatched' = r.dispatched
    /\ goal_position' = IF r.invoked = "navigation_agent" /\ ~r.raised
                        THEN goal ELSE <<>>
    /\ UNCHANGED <<compile_vars, planner_vars, search_vars, writer_vars, tile_vars>>

\* a tick on the executor l that the load attempt left, with the sub-agent
\* outcomes of outs and the agent in one of cells; the observed map counts
\* in a tick that no call raises in, a tick that raises handing no goal
TickOn(l, file, content, outs, cells) ==
    \E p \in IF UsesPosition(l) THEN cells ELSE {<<0, 0>>} :
      \E o \in outs :
        \E global_map \in IF ReadsMap(l) /\ o[1] = "none"
                          THEN GlobalMaps ELSE {<<>>} :
          TickResult(after_load(l, p, o[1], o[2]), file, content, p,
                     goal_handed(l, p, global_map))

\* one call of get_actions by the simulation loop, finding the mission file
\* in the state file with one of texts in it
TickFrom(file, texts, outs, cells) ==
    \E content \in texts :
        TickOn(attempt_load(Self, file, content), file, content, outs, cells)

\* a tick that finds the mission file as the previous tick left it: absent,
\* already loaded, or newer and still empty
Tick == TickFrom(mission_file, {<<>>}, Outcomes, Positions)

\* agent_commands.txt as a writer leaves it
Rewritten == [exists |-> TRUE, mtime |-> mission_file.mtime + 1]

\* a tick that finds the mission file rewritten since the previous tick
TickAfterWrite ==
    /\ mission_file.mtime < MaxMtime
    /\ TickFrom(Rewritten, MissionTexts, Outcomes, Positions)

\* the assignments of reset: r is the executor it leaves
ResetResult(r) ==
    /\ mission_steps' = r.mission_steps
    /\ current_step_index' = r.current_step_index
    /\ mission_loaded' = r.mission_loaded
    /\ last_mission_time' = r.last_mission_time
    /\ active_agent' = r.active_agent
    /\ active_agent_type' = r.active_agent_type
    /\ scan_steps' = r.scan_steps
    /\ execution_state' = r.execution_state
    /\ ClearTick
    /\ UNCHANGED <<mission_file, mission_text, compile_vars, planner_vars,
                   search_vars, writer_vars, tile_vars>>

\* the simulation's reset calls the executor's reset
Reset == ResetResult(reset(Self))

Next == Tick \/ TickAfterWrite \/ Reset

Spec == Init /\ [][Next]_vars

\* ------------------------------------------------- a mission run to its end
WallLine == <<"Activate", "WallAgent", "to", "follow", "walls", "inside", "Kitchen">>

\* missions of one line more than those that replace each other, with every
\* kind of line the parser can turn into a step and the one it cannot
SingleMissionTexts == TextsOf(MissionLines \cup {WallLine}, MaxLines + 1)

\* the sub-agent calls of the tick return without raising
Quiet == {<<"none", FALSE>>, <<"none", TRUE>>}

\* the first tick that finds a mission file; no other mission follows
QuietLoad ==
    /\ mission_file.mtime = 0
    /\ TickFrom(Rewritten, SingleMissionTexts, Quiet, Positions)

QuietTick ==
    /\ mission_file.mtime > 0
    /\ TickFrom(mission_file, {<<>>}, Quiet, Positions)

QuietNext == QuietLoad \/ QuietTick

\* one mission, never replaced, and no tick raises
SingleMissionSpec == Init /\ [][QuietNext]_vars

\* the executors a tick can leave when it finds the mission file unchanged
\* and no sub-agent call raises
QuietResults ==
    {get_actions(Self, mission_file, <<>>, p, o[1], o[2]).self :
        p \in Positions, o \in Quiet}

\* ------------------------------------- Door steps for rooms of either format
BedroomDoorLine == <<"Activate", "DoorAgent", "to", "open", "and", "enter", "Bedroom">>
GarageDoorLine  == <<"Activate", "DoorAgent", "to", "open", "and", "enter", "Garage">>

\* missions of Door and Scan steps, the doors of the rooms being declared as
\* one coordinate (Kitchen) or as a list of coordinates (Bedroom, Garage)
FormatTexts ==
    TextsOf({DoorLine, BedroomDoorLine, GarageDoorLine, ScanLine}, MaxLines + 1)

\* the agent is on the door of the kitchen or at one of Positions
FormatPositions == Positions \cup {<<0, 0>>}

\* the first tick that finds a mission file; no other mission follows
FormatLoad ==
    /\ mission_file.mtime = 0
    /\ TickFrom(Rewritten, FormatTexts, Quiet, FormatPositions)

FormatTick ==
    /\ mission_file.mtime > 0
    /\ TickFrom(mission_file, {<<>>}, Quiet, FormatPositions)

FormatNext == FormatLoad \/ FormatTick

\* one mission, and no sub-agent call raises
DoorFormatSpec == Init /\ [][FormatNext]_vars

\* ----------------------------------------------------------- route_to_agents
\* house_dict["rooms"]: the Kitchen has one door, the Hallway neither door nor
\* entry, the Bedroom one entry and no door
rooms ==
    [r \in {"Kitchen", "Hallway", "Bedroom"} |->
        CASE r = "Kitchen" -> [doors |-> <<<<0, 0>>>>, entries |-> <<>>]
          [] r = "Hallway" -> [doors |-> <<>>, entries |-> <<>>]
          [] r = "Bedroom" -> [doors |-> <<>>, entries |-> <<<<1, 0>>>>]]

\* has_doors answering for every room of the registry
has_doors_listed(house_rooms, room_name) == room_name \in DOMAIN house_rooms

\* has_doors counting the entries of the room as doors
has_doors_or_entries(house_rooms, room_name) ==
    IF room_name \in DOMAIN house_rooms
    THEN Len(house_rooms[room_name].doors) > 0
         \/ Len(house_rooms[room_name].entries) > 0
    ELSE FALSE

has_doors(house_rooms, room_name) ==
    IF room_name \in DOMAIN house_rooms
    THEN Len(house_rooms[room_name].doors) > 0
    ELSE FALSE

step_nav(n, start_room, start_point, dest_room, dest_point, entrance) ==
    [n |-> n, agent |-> "NavigationAgent",
     from |-> [room |-> start_room, point |-> start_point],
     to |-> [room |-> dest_room, point |-> dest_point, entrance |-> entrance]]

step_door(n, room) ==
    [n |-> n, agent |-> "DoorAgent", action |-> "enter", room |-> room]

step_wall(n, room) ==
    [n |-> n, agent |-> "WallAgent", action |-> "follow_walls", room |-> room]

\* objective "" stands for a step without objective
step_scan(n, room, objective) ==
    [n |-> n, agent |-> "ScanAgent", action |-> "scan_room", room |-> room,
     objective |-> objective]

\* (wp.get("type") or "").lower().startswith("enter_")
StartsWithEnter(type) == type \in {"enter_room", "enter_hallway"}

\* the loop of build_agent_plan from waypoint i on; n is Len(steps) + 1
RECURSIVE plan_segments(_, _, _, _, _)
plan_segments(wps, i, cur_room, seg_start, steps) ==
    IF i > Len(wps) THEN steps
    ELSE IF wps[i].room # cur_room
    THEN plan_segments(wps, i + 1, wps[i].room, wps[i].point,
            Append(steps, step_nav(Len(steps) + 1, cur_room, seg_start, wps[i].room,
                                   wps[i].point, StartsWithEnter(wps[i].type)))
            \o (IF has_doors(rooms, wps[i].room)
                THEN <<step_door(Len(steps) + 2, wps[i].room)>> ELSE <<>>))
    ELSE plan_segments(wps, i + 1, cur_room, seg_start, steps)

\* closing_steps with the scan step ahead of the wall step
closing_steps_scan_first(steps, room, objective, with_wall) ==
    steps
    \o <<step_scan(Len(steps) + 1, room, objective)>>
    \o (IF with_wall THEN <<step_wall(Len(steps) + 2, room)>> ELSE <<>>)

\* the wall step (when INCLUDE_WALL_STEP) and the scan step that end a plan
closing_steps(steps, room, objective, with_wall) ==
    steps
    \o (IF with_wall THEN <<step_wall(Len(steps) + 1, room)>> ELSE <<>>)
    \o <<step_scan(Len(steps) + (IF with_wall THEN 2 ELSE 1), room, objective)>>

\* build_agent_plan whose loop starts at the first waypoint, in no room yet
build_agent_plan_from_nowhere(wps, objective, with_wall) ==
    IF Len(wps) < 2
    THEN closing_steps(<<>>, IF wps # <<>> THEN wps[1].room ELSE "unknown",
                       objective, with_wall)
    ELSE closing_steps(plan_segments(wps, 1, "unknown", wps[1].point, <<>>),
                       wps[Len(wps)].room, objective, with_wall)

\* the "steps" of the plan
build_agent_plan(wps, objective, with_wall) ==
    IF Len(wps) < 2
    THEN closing_steps(<<>>, IF wps # <<>> THEN wps[1].room ELSE "unknown",
                       objective, with_wall)
    ELSE closing_steps(plan_segments(wps, 2, wps[1].room, wps[1].point, <<>>),
                       wps[Len(wps)].room, objective, with_wall)

\* str(tuple(point))
PointToken(point) ==
    CASE point = <<0, 0>> -> "(0, 0)"
      [] point = <<1, 0>> -> "(1, 0)"
      [] OTHER -> ToString(point)

\* one line of plan_to_text, as the tokens after the ordinal
LineOf(s) ==
    CASE s.agent = "NavigationAgent" ->
            <<"Activate", "NavigationAgent", "from", PointToken(s.from.point), "in",
              s.from.room, "to">>
            \o (IF s.to.entrance THEN <<"entrance", "of", s.to.room>> ELSE <<s.to.room>>)
            \o <<"at", PointToken(s.to.point)>>
      [] s.agent = "DoorAgent" ->
            <<"Activate", "DoorAgent", "to", "open", "and", "enter", s.room>>
      [] s.agent = "WallAgent" ->
            <<"Activate", "WallAgent", "to", "follow", "walls", "inside", s.room>>
      [] s.agent = "ScanAgent" ->
            <<"Activate", "ScanAgent", "to", "scan", s.room>>
            \o (IF s.objective # "" THEN <<"to", "find", "the", s.objective>> ELSE <<>>)
      [] OTHER -> <<s.agent>>

plan_to_text(steps) == [i \in 1..Len(steps) |-> [n |-> i, toks |-> LineOf(steps[i])]]

\* the waypoints identify_key_points hands over: a start, room changes, a goal
WaypointTypes(i, len, room) ==
    IF i = 1 THEN {"start"}
    ELSE IF i = len THEN {"goal"}
    ELSE {"exit_room", IF room = "Hallway" THEN "enter_hallway" ELSE "enter_room"}

Waypoint == [point : {<<0, 0>>, <<1, 0>>}, room : {"Kitchen", "Hallway", "Bedroom"},
             type : {"start", "exit_room", "enter_room", "enter_hallway", "goal"}]

WaypointLists ==
    UNION {{w \in [1..k -> Waypoint] :
                \A i \in 1..k : w[i].type \in WaypointTypes(i, k, w[i].room)}
           : k \in 0..MaxWaypoints}

CompileInit ==
    /\ ExecInit
    /\ OthersIdle
    /\ waypoints \in WaypointLists
    /\ target \in {"", "keys"}
    /\ include_wall \in BOOLEAN
    /\ plan = <<>>
    /\ commands_txt = <<>>
    /\ parsed = <<>>
    /\ stage = "path"
    /\ PlannerIdle

\* one pass of main over a new planned_path.json: build the plan, write its text
Compile ==
    /\ stage = "path"
    /\ plan' = build_agent_plan(waypoints, target, include_wall)
    /\ commands_txt' = plan_to_text(build_agent_plan(waypoints, target, include_wall))
    /\ stage' = "written"
    /\ UNCHANGED <<search_vars, writer_vars, tile_vars, exec_vars, planner_vars, waypoints, target, include_wall, parsed>>

\* the executor parses the text written
ParseCommands ==
    /\ stage = "written"
    /\ parsed' = parse_mission_steps(commands_txt)
    /\ stage' = "parsed"
    /\ UNCHANGED <<search_vars, writer_vars, tile_vars, exec_vars, planner_vars, waypoints, target, include_wall, plan,
                   commands_txt>>

CompileNext == Compile \/ ParseCommands

CompileSpec == CompileInit /\ [][CompileNext]_vars

\* ------------------------------------- main writes the two command files
\* the contents planned_path.json takes in turn: no waypoint, a path inside
\* the Kitchen, a path from the Kitchen into the Hallway
WriterPaths ==
    {<<>>,
     <<[point |-> <<0, 0>>, room |-> "Kitchen", type |-> "start"],
       [point |-> <<1, 0>>, room |-> "Kitchen", type |-> "goal"]>>,
     <<[point |-> <<0, 0>>, room |-> "Kitchen", type |-> "start"],
       [point |-> <<1, 0>>, room |-> "Hallway", type |-> "enter_hallway"],
       [point |-> <<1, 0>>, room |-> "Hallway", type |-> "goal"]>>}

\* variant of write_tmp: the data goes to the file itself
write_in_place(dest, tmp, data, k) ==
    [dest |-> <<SubSeq(data, 1, k)>>, tmp |-> tmp]

\* lines 104-106 and 110-112, open(tmp, "w") and the writes into it: the
\* file dest and the file tmp once the first k items of data are written
write_tmp(dest, tmp, data, k) ==
    [dest |-> dest, tmp |-> [exists |-> TRUE, text |-> SubSeq(data, 1, k)]]

WriterInit ==
    /\ ExecInit
    /\ OthersIdle
    /\ PlannerIdle
    /\ waypoints = <<>>
    /\ target = "keys"
    /\ include_wall \in BOOLEAN
    /\ plan = <<>>
    /\ commands_txt = <<>>
    /\ parsed = <<>>
    /\ stage = "idle"

\* lines 129-135 of main: planned_path.json is newer than the last one
\* compiled; main loads it and builds the plan
LoadPath ==
    /\ stage = "idle"
    /\ \E w \in WriterPaths :
          /\ waypoints' = w
          /\ plan' = build_agent_plan(w, target, include_wall)
    /\ stage' = "json"
    /\ UNCHANGED <<search_vars, writer_vars, tile_vars, exec_vars, planner_vars,
                   target, include_wall, commands_txt, parsed>>

\* safe_write_json, line 105: open(tmp, "w")
OpenJsonTmp ==
    /\ stage = "json"
    /\ ~tmp_json.exists
    /\ \E r \in {write_tmp(commands_json, tmp_json, plan, 0)} :
          commands_json' = r.dest /\ tmp_json' = r.tmp
    /\ UNCHANGED <<search_vars, tile_vars, exec_vars, planner_vars, compile_vars,
                   tmp_txt, seen>>

\* safe_write_json, line 106: json.dump writes one more step of the plan
DumpJson ==
    /\ stage = "json"
    /\ tmp_json.exists
    /\ Len(tmp_json.text) < Len(plan)
    /\ \E r \in {write_tmp(commands_json, tmp_json, plan, Len(tmp_json.text) + 1)} :
          commands_json' = r.dest /\ tmp_json' = r.tmp
    /\ UNCHANGED <<search_vars, tile_vars, exec_vars, planner_vars, compile_vars,
                   tmp_txt, seen>>

\* safe_write_json, line 107: the file is closed and os.replace(tmp, path)
ReplaceJson ==
    /\ stage = "json"
    /\ tmp_json.exists
    /\ Len(tmp_json.text) = Len(plan)
    /\ commands_json' = <<tmp_json.text>>
    /\ tmp_json' = NoFile
    /\ stage' = "text"
    /\ UNCHANGED <<search_vars, tile_vars, exec_vars, planner_vars, waypoints, target,
                   include_wall, plan, commands_txt, parsed, tmp_txt, seen>>

\* safe_write_text, line 111: open(tmp, "w")
OpenTextTmp ==
    /\ stage = "text"
    /\ ~tmp_txt.exists
    /\ \E r \in {write_tmp(<<commands_txt>>, tmp_txt, plan_to_text(plan), 0)} :
          commands_txt' = r.dest[1] /\ tmp_txt' = r.tmp
    /\ UNCHANGED <<search_vars, tile_vars, exec_vars, planner_vars, waypoints, target,
                   include_wall, plan, parsed, stage, commands_json, tmp_json, seen>>

\* safe_write_text, line 112: f.write(text) has one more line in the file
WriteText ==
    /\ stage = "text"
    /\ tmp_txt.exists
    /\ Len(tmp_txt.text) < Len(plan_to_text(plan))
    /\ \E r \in {write_tmp(<<commands_txt>>, tmp_txt, plan_to_text(plan),
                            Len(tmp_txt.text) + 1)} :
          commands_txt' = r.dest[1] /\ tmp_txt' = r.tmp
    /\ UNCHANGED <<search_vars, tile_vars, exec_vars, planner_vars, waypoints, target,
                   include_wall, plan, parsed, stage, commands_json, tmp_json, seen>>

\* safe_write_text, line 113, and line 139 of main: os.replace(tmp, path),
\* and the pass is over
ReplaceText ==
    /\ stage = "text"
    /\ tmp_txt.exists
    /\ Len(tmp_txt.text) = Len(plan_to_text(plan))
    /\ commands_txt' = tmp_txt.text
    /\ tmp_txt' = NoFile
    /\ stage' = "idle"
    /\ UNCHANGED <<search_vars, tile_vars, exec_vars, planner_vars, waypoints, target,
                   include_wall, plan, parsed, commands_json, tmp_json, seen>>

\* a reader opens agent_commands.json and agent_commands.txt at one instant
ReadCommands ==
    /\ commands_json # <<>>
    /\ seen' = <<[json |-> commands_json[1], txt |-> commands_txt]>>
    /\ seen' # seen
    /\ UNCHANGED <<search_vars, tile_vars, exec_vars, planner_vars, compile_vars,
                   commands_json, tmp_json, tmp_txt>>

WriterNext ==
    \/ LoadPath
    \/ OpenJsonTmp
    \/ DumpJson
    \/ ReplaceJson
    \/ OpenTextTmp
    \/ WriteText
    \/ ReplaceText
    \/ ReadCommands

WriterSpec == WriterInit /\ [][WriterNext]_vars

\* --------------------------------------------- texts with lines of any kind
\* lines that match the pattern of parse_mission_steps, under any ordinal
StepLines ==
    {[n |-> n, toks |-> t] : n \in 0..2, t \in {NavLine, DoorLine, ScanLine, UnknownLine}}

\* lines that do not: a planner's Navigation line, a line without "Activate",
\* an agent name that is no word, a line without action, a remark, a blank line
OtherLines ==
    {[n |-> n, toks |-> t] :
        n \in 1..2,
        t \in {NavPlanLine, <<"Go", "ScanAgent", "to", "Kitchen">>,
               <<"Activate", "Note:", "to", "scan">>, <<"Activate", "ScanAgent", "to">>}}
    \cup {[n |-> -1, toks |-> t] : t \in {<<"Note:", "scan", "the", "Kitchen">>, <<>>}}

\* the texts of at most MaxLines + 1 lines
ParseTexts ==
    UNION {[1..k -> StepLines \cup OtherLines] : k \in 0..(MaxLines + 1)}

\* a text is about to be parsed
ParseInit ==
    /\ ExecInit
    /\ OthersIdle
    /\ PlannerIdle
    /\ waypoints = <<>>
    /\ target = ""
    /\ include_wall = FALSE
    /\ plan = <<>>
    /\ commands_txt \in ParseTexts
    /\ parsed = <<>>
    /\ stage = "written"

ParseSpec == ParseInit /\ [][ParseCommands]_vars

\* ------------------------------------------------------------- path_planner
\* Distances are kept in ten-thousandths of a grid step: 1.0 is AxisCost and
\* 1.414 is DiagCost.  The grid is [w, h, code], code[<<x, y>>] being
\* grid[y, x]; the registry is the sequence of the rooms of unified_rooms.json
\* in file order, each [name, bbox, doors, entries], bbox being <<>> when the
\* room has none and doors and entries the coordinates listed for the room.

\* a_star's table of moves, each with its step cost
Moves_axis_only ==
    {<<1, 0, AxisCost>>, <<-1, 0, AxisCost>>, <<0, 1, AxisCost>>, <<0, -1, AxisCost>>}

Moves ==
    {<<1, 0, AxisCost>>, <<-1, 0, AxisCost>>, <<0, 1, AxisCost>>, <<0, -1, AxisCost>>,
     <<1, 1, DiagCost>>, <<-1, -1, DiagCost>>, <<1, -1, DiagCost>>, <<-1, 1, DiagCost>>}

WALKABLE == {0, 3, 8}

\* the codes of a door and of an entry
Connectors == {3, 8}

\* variant of _in_bounds: the last column and the last row are left out
_in_bounds_short(grid, x, y) == 0 <= x /\ x < grid.w - 1 /\ 0 <= y /\ y < grid.h - 1

_in_bounds(grid, x, y) == 0 <= x /\ x < grid.w /\ 0 <= y /\ y < grid.h

\* the rooms of the registry, by position, whose bbox holds (x, y)
RoomsAt(registry, x, y) ==
    {i \in 1..Len(registry) :
        /\ Len(registry[i].bbox) = 4
        /\ registry[i].bbox[1] <= x /\ x < registry[i].bbox[3]
        /\ registry[i].bbox[2] <= y /\ y < registry[i].bbox[4]}

\* the name of the first room whose bbox holds (x, y), "None" when none does
get_room_at(registry, x, y) ==
    IF RoomsAt(registry, x, y) = {} THEN "None"
    ELSE registry[CHOOSE i \in RoomsAt(registry, x, y) :
                     \A j \in RoomsAt(registry, x, y) : i <= j].name

\* the integer part of the square root of n
Whole(n) == CHOOSE r \in 0..n : r * r <= n /\ (r + 1) * (r + 1) > n

\* (q * unit + s)^2 <= n * unit^2, for q the integer part of the square root
\* of n and s < unit, in numbers the integers hold
Fits(n, q, unit, s) ==
    2 * q * s + ((s * s + unit - 1) \div unit) <= unit * (n - q * q)

\* the decimals of the square root of n, unit being 10^digits: acc holds the
\* decimals found so far, and place is the weight of the last of them
RECURSIVE Frac(_, _, _, _, _)
Frac(n, q, unit, place, acc) ==
    IF place = 1 THEN acc
    ELSE Frac(n, q, unit, place \div 10,
              CHOOSE c \in (10 * acc)..(10 * acc + 9) :
                 /\ Fits(n, q, unit, c * (place \div 10))
                 /\ c % 10 = 9 \/ ~Fits(n, q, unit, (c + 1) * (place \div 10)))

\* the integer part of the square root of n * 100^digits, digit by digit
Root(n, digits) ==
    Whole(n) * (10 ^ digits) + Frac(n, Whole(n), 10 ^ digits, 10 ^ digits, 0)

\* the roots, in ten-thousandths, of the squared distances of a grid of
\* FallbackSize by FallbackSize cells
Roots == [n \in 0..(2 * (FallbackSize - 1) * (FallbackSize - 1)) |-> Root(n, 4)]

\* variant of h: the squared distance, the root not taken
h_squared(a, b) ==
    ((a[1] - b[1]) * (a[1] - b[1]) + (a[2] - b[2]) * (a[2] - b[2])) * Roots[1]

\* the heuristic h of a_star: the Euclidean distance, rounded down
h(a, b) ==
    Roots[(a[1] - b[1]) * (a[1] - b[1]) + (a[2] - b[2]) * (a[2] - b[2])]

\* the order of the heap entries (f, g, node), as Python compares tuples
HeapLess(a, b) ==
    \/ a[1] < b[1]
    \/ a[1] = b[1] /\ a[2] < b[2]
    \/ a[1] = b[1] /\ a[2] = b[2] /\ a[3][1] < b[3][1]
    \/ a[1] = b[1] /\ a[2] = b[2] /\ a[3][1] = b[3][1] /\ a[3][2] < b[3][2]

\* what heappop returns
HeapTop(open_q) == CHOOSE a \in open_q : \A b \in open_q \ {a} : HeapLess(a, b)

\* lines 108-112 of a_star: the path that came leads back from cur
\* variant of PathTo: the walk back stops at the first move, without the start
RECURSIVE PathTo_after_start(_, _)
PathTo_after_start(came, cur) ==
    IF cur \in DOMAIN came THEN Append(PathTo_after_start(came, came[cur]), cur)
    ELSE <<>>

RECURSIVE PathTo(_, _)
PathTo(came, cur) ==
    IF cur \in DOMAIN came THEN Append(PathTo(came, came[cur]), cur)
    ELSE <<cur>>

\* variant of CanEnter: the code of the cell is not looked at
CanEnter_through_walls(grid, registry, allowed_rooms, cur, m) ==
    /\ _in_bounds(grid, cur[1] + m[1], cur[2] + m[2])
    /\ \/ get_room_at(registry, cur[1] + m[1], cur[2] + m[2]) \in allowed_rooms
       \/ grid.code[<<cur[1] + m[1], cur[2] + m[2]>>] \in Connectors

\* variant of CanEnter: the room of the cell is not looked at
CanEnter_any_room(grid, registry, allowed_rooms, cur, m) ==
    /\ _in_bounds(grid, cur[1] + m[1], cur[2] + m[2])
    /\ grid.code[<<cur[1] + m[1], cur[2] + m[2]>>] \in WALKABLE

\* lines 118-129 of a_star: the move m out of cur leads to a cell to enter
CanEnter(grid, registry, allowed_rooms, cur, m) ==
    /\ _in_bounds(grid, cur[1] + m[1], cur[2] + m[2])
    /\ grid.code[<<cur[1] + m[1], cur[2] + m[2]>>] \in WALKABLE
    /\ \/ get_room_at(registry, cur[1] + m[1], cur[2] + m[2]) \in allowed_rooms
       \/ grid.code[<<cur[1] + m[1], cur[2] + m[2]>>] \in Connectors

\* lines 131-137 of a_star: the moves out of cur that lower g; no two of them
\* lead to the same cell, so the order in which the loop takes them is free
Improving(grid, registry, allowed_rooms, g, g_cur, cur) ==
    {m \in Moves :
        /\ CanEnter(grid, registry, allowed_rooms, cur, m)
        /\ \/ <<cur[1] + m[1], cur[2] + m[2]>> \notin DOMAIN g
           \/ g_cur + m[3] < g[<<cur[1] + m[1], cur[2] + m[2]>>]}

\* g, came and the heap after the moves ms out of cur
Relaxed(goal, open_q, came, g, g_cur, cur, ms) ==
    [open_q |-> open_q \cup
                  {<<g_cur + m[3] + h(<<cur[1] + m[1], cur[2] + m[2]>>, goal),
                     g_cur + m[3], <<cur[1] + m[1], cur[2] + m[2]>>>> : m \in ms},
     came   |-> [n \in DOMAIN came \cup {<<cur[1] + m[1], cur[2] + m[2]>> : m \in ms} |->
                   IF \E m \in ms : n = <<cur[1] + m[1], cur[2] + m[2]>>
                   THEN cur ELSE came[n]],
     g      |-> [n \in DOMAIN g \cup {<<cur[1] + m[1], cur[2] + m[2]>> : m \in ms} |->
                   IF \E m \in ms : n = <<cur[1] + m[1], cur[2] + m[2]>>
                   THEN g_cur + (CHOOSE m \in ms :
                                    n = <<cur[1] + m[1], cur[2] + m[2]>>)[3]
                   ELSE g[n]]]

\* the while loop of a_star, lines 101-139
RECURSIVE a_star_loop(_, _, _, _, _, _, _, _)

\* the loop goes on with what the moves out of the cell left
a_star_relax(grid, registry, goal, allowed_rooms, visited, r) ==
    a_star_loop(grid, registry, goal, allowed_rooms, r.open_q, r.came, r.g, visited)

\* lines 103-137: top is the entry popped off open_q
a_star_visit(grid, registry, goal, allowed_rooms, open_q, came, g, visited, top) ==
    IF top[3] \in visited
    THEN a_star_loop(grid, registry, goal, allowed_rooms, open_q \ {top}, came, g,
                     visited)
    ELSE IF top[3] = goal THEN PathTo(came, top[3])
    ELSE a_star_relax(grid, registry, goal, allowed_rooms, visited \cup {top[3]},
            Relaxed(goal, open_q \ {top}, came, g, top[2], top[3],
                    Improving(grid, registry, allowed_rooms, g, top[2], top[3])))

a_star_loop(grid, registry, goal, allowed_rooms, open_q, came, g, visited) ==
    IF open_q = {} THEN <<>>
    ELSE a_star_visit(grid, registry, goal, allowed_rooms, open_q, came, g, visited,
                      HeapTop(open_q))

a_star(grid, registry, start, goal, allowed_rooms) ==
    a_star_loop(grid, registry, goal, allowed_rooms,
                {<<h(start, goal), 0, start>>}, << >>, (start :> 0), {})

\* variant of HasHall: the name is not lower-cased
HasHall_as_written(room) == room = "hallway"

\* "hall" in room.lower(), on the room names in use
HasHall(room) == room \in {"hallway", "Hallway"}

\* variant of Crossing: both waypoints are emitted whatever the rooms
Crossing_both(a, last_room, b, room) ==
    <<[point |-> a, room |-> last_room, type |-> "exit_room"],
      [point |-> b, room |-> room,
       type |-> IF HasHall(room) THEN "enter_hallway" ELSE "enter_room"]>>

\* lines 150-156 of identify_key_points: the waypoints of a change of room
\* from last_room at cell a to room at cell b
Crossing(a, last_room, b, room) ==
    (IF last_room # "None"
     THEN <<[point |-> a, room |-> last_room, type |-> "exit_room"]>> ELSE <<>>)
    \o (IF room # "None"
        THEN <<[point |-> b, room |-> room,
                type |-> IF HasHall(room) THEN "enter_hallway" ELSE "enter_room"]>>
        ELSE <<>>)

\* the loop of identify_key_points from cell i on
RECURSIVE key_points_loop(_, _, _, _, _)

\* room is the room of cell i
key_points_at(registry, path, i, last_room, keys, room) ==
    IF room # last_room
    THEN key_points_loop(registry, path, i + 1, room,
                         keys \o Crossing(path[i - 1], last_room, path[i], room))
    ELSE key_points_loop(registry, path, i + 1, last_room, keys)

key_points_loop(registry, path, i, last_room, keys) ==
    IF i > Len(path) THEN keys
    ELSE key_points_at(registry, path, i, last_room, keys,
                       get_room_at(registry, path[i][1], path[i][2]))

\* variant of identify_key_points: the goal is tagged only when the path ends
\* in a room
identify_key_points_roomed(registry, path) ==
    IF path = <<>> THEN <<>>
    ELSE key_points_loop(registry, path, 2,
                         get_room_at(registry, path[1][1], path[1][2]),
                         <<[point |-> path[1],
                            room  |-> get_room_at(registry, path[1][1], path[1][2]),
                            type  |-> "start"]>>)
         \o (IF get_room_at(registry, path[Len(path)][1], path[Len(path)][2]) # "None"
             THEN <<[point |-> path[Len(path)],
                     room  |-> get_room_at(registry, path[Len(path)][1],
                                           path[Len(path)][2]),
                     type  |-> "goal"]>>
             ELSE <<>>)

identify_key_points(registry, path) ==
    IF path = <<>> THEN <<>>
    ELSE Append(key_points_loop(registry, path, 2,
                                get_room_at(registry, path[1][1], path[1][2]),
                                <<[point |-> path[1],
                                   room  |-> get_room_at(registry, path[1][1],
                                                         path[1][2]),
                                   type  |-> "start"]>>),
                [point |-> path[Len(path)],
                 room  |-> get_room_at(registry, path[Len(path)][1], path[Len(path)][2]),
                 type  |-> "goal"])

\* the distance of one segment in hundredths of a meter; round(d, 2) leaves a
\* whole number of hundredths as it is
SegmentDistance(p1, p2) == (Abs(p2[1] - p1[1]) + Abs(p2[2] - p1[2])) * GRID_RES

RECURSIVE SumOf(_)
SumOf(ds) == IF ds = <<>> THEN 0 ELSE ds[1] + SumOf(Tail(ds))

\* variant of calc_distances: the total goes on from the total of the
\* compilation before
calc_distances_accumulating(keys) ==
    [segs  |-> [i \in 1..(Len(keys) - 1) |->
                  [from       |-> keys[i].room,
                   to         |-> keys[i + 1].room,
                   distance_m |-> SegmentDistance(keys[i].point, keys[i + 1].point)]],
     total |-> SumOf([i \in 1..(Len(keys) - 1) |->
                        SegmentDistance(keys[i].point, keys[i + 1].point)])
               + (IF compiled = <<>> THEN 0
                  ELSE compiled[Len(compiled)].total_distance_m)]

\* calc_distances: the segments between the waypoints and their total
calc_distances(keys) ==
    [segs  |-> [i \in 1..(Len(keys) - 1) |->
                  [from       |-> keys[i].room,
                   to         |-> keys[i + 1].room,
                   distance_m |-> SegmentDistance(keys[i].point, keys[i + 1].point)]],
     total |-> SumOf([i \in 1..(Len(keys) - 1) |->
                        SegmentDistance(keys[i].point, keys[i + 1].point)])]

\* self.rooms.get(room_name, {}): the room's entry, an empty one when it has none
RoomInfo(registry, room_name) ==
    IF \E i \in 1..Len(registry) : registry[i].name = room_name
    THEN registry[CHOOSE i \in 1..Len(registry) : registry[i].name = room_name]
    ELSE [name |-> room_name, bbox |-> <<>>, doors |-> <<>>, entries |-> <<>>]

\* the coordinate is on the grid and the grid has a door or an entry there
Confirmed(grid, p) ==
    _in_bounds(grid, p[1], p[2]) /\ grid.code[p] \in Connectors

\* variant of _collect_target_cells: the grid is not consulted
_collect_target_cells_unverified(grid, registry, room_name) ==
    RoomInfo(registry, room_name).doors \o RoomInfo(registry, room_name).entries

_collect_target_cells(grid, registry, room_name) ==
    LET OnGrid(p) == Confirmed(grid, p)
    IN  SelectSeq(RoomInfo(registry, room_name).doors
                  \o RoomInfo(registry, room_name).entries, OnGrid)

\* lines 231-233 of plan: the cells of the bbox, row by row
BboxCells(bbox) ==
    IF bbox[3] <= bbox[1] \/ bbox[4] <= bbox[2] THEN <<>>
    ELSE [k \in 1..((bbox[3] - bbox[1]) * (bbox[4] - bbox[2])) |->
            <<bbox[1] + ((k - 1) % (bbox[3] - bbox[1])),
              bbox[2] + ((k - 1) \div (bbox[3] - bbox[1]))>>]

\* lines 225-236 of plan: the walkable cells inside the room's bbox
FallbackTargets(grid, registry, goal_room) ==
    LET Free(p) == _in_bounds(grid, p[1], p[2]) /\ grid.code[p] \in WALKABLE
    IN  IF Len(RoomInfo(registry, goal_room).bbox) = 4
        THEN SelectSeq(BboxCells(RoomInfo(registry, goal_room).bbox), Free)
        ELSE <<>>

\* door_targets as line 238 of plan finds it
door_targets(grid, registry, goal_room) ==
    IF _collect_target_cells(grid, registry, goal_room) # <<>>
    THEN _collect_target_cells(grid, registry, goal_room)
    ELSE FallbackTargets(grid, registry, goal_room)

\* allowed_rooms of plan
AllowedRooms(goal_room) == {"Open Space", "hallway", goal_room, "None"}

\* the cost of a path at a_star's step costs
RECURSIVE PathCost(_)
PathCost(path) ==
    IF Len(path) < 2 THEN 0
    ELSE (IF path[1][1] # path[2][1] /\ path[1][2] # path[2][2]
          THEN DiagCost ELSE AxisCost) + PathCost(Tail(path))

\* variant of Shorter: the path of less cost replaces the best
Shorter_by_cost(path, best) ==
    path # <<>> /\ (best = <<>> \/ PathCost(path) < PathCost(best))

\* line 246 of plan: the path replaces the best so far, best_len being
\* infinite as long as there is none
Shorter(path, best) ==
    path # <<>> /\ (best = <<>> \/ Len(path) < Len(best))

\* line 245 of plan, for each of the targets in turn
candidate_paths(grid, registry, start, goal_room, targets) ==
    [i \in 1..Len(targets) |->
        a_star(grid, registry, start, targets[i], AllowedRooms(goal_room))]

\* lines 244-247 of plan: best_path after the paths from the i-th on
RECURSIVE best_of(_, _, _)
best_of(paths, i, best) ==
    IF i > Len(paths) THEN best
    ELSE best_of(paths, i + 1, IF Shorter(paths[i], best) THEN paths[i] ELSE best)

\* lines 253-260 of plan: the plan of best_path, <<>> for None
plan_of_path(registry, best) ==
    IF best = <<>> THEN <<>>
    ELSE <<[waypoints        |-> identify_key_points(registry, best),
            segments         |-> calc_distances(identify_key_points(registry, best)).segs,
            total_distance_m |-> calc_distances(identify_key_points(registry, best)).total]>>

\* ----------------------------------------------------- the planner's world
\* np.zeros((size, size))
FallbackGrid ==
    [w |-> FallbackSize, h |-> FallbackSize,
     code |-> [c \in (0..(FallbackSize - 1)) \X (0..(FallbackSize - 1)) |-> 0]]

Cells(wd, ht) == (0..(wd - 1)) \X (0..(ht - 1))

\* the grids of GridW by GridH cells that are free but for column 1, where
\* each cell is free, a wall or a door, or an entry in row 0
Grids ==
    {[w |-> GridW, h |-> GridH,
      code |-> [c \in Cells(GridW, GridH) |-> IF c[1] = 1 THEN col[c[2]] ELSE 0]]
     : col \in {f \in [0..(GridH - 1) -> {0, 1, 3, 8}] :
                  \A y \in 1..(GridH - 1) : f[y] # 8}}

\* the doors and entries a registry lists for the goal room: cells of column
\* 1, on the grid or below it
Listings ==
    {<<<<>>, <<>>>>,
     <<<<<<1, 0>>>>, <<>>>>,
     <<<<>>, <<<<1, 0>>>>>>,
     <<<<<<1, GridH - 1>>>>, <<<<1, 0>>>>>>,
     <<<<<<1, 0>>, <<1, GridH - 1>>>>, <<>>>>,
     <<<<<<1, GridH>>>>, <<>>>>}

\* the goal room, with column 1 inside its bbox or left of it
GoalRooms ==
    {[name |-> "Kitchen", bbox |-> <<x1, 0, GridW, GridH>>, doors |-> l[1],
      entries |-> l[2]]
     : x1 \in {1, 2}, l \in Listings}

\* the room that column 0 belongs to, when it belongs to one
StartRoom ==
    [name |-> "Bedroom", bbox |-> <<0, 0, 1, GridH>>, doors |-> <<>>, entries |-> <<>>]

Registries == {<<k>> : k \in GoalRooms} \cup {<<StartRoom, k>> : k \in GoalRooms}

HouseMaps ==
    {[state |-> "ok", grid |-> g] : g \in Grids}
    \cup {[state |-> s, grid |-> NoGrid] : s \in {"missing", "unreadable"}}

RoomFiles ==
    {[state |-> "ok", rooms |-> r] : r \in Registries}
    \cup {[state |-> s, rooms |-> <<>>] : s \in {"missing", "unreadable"}}

\* data.get("room") or data.get("found_room") of a request
RequestRooms == {"Kitchen", "Garage", "none"}

PlannerInit ==
    /\ ExecInit
    /\ OthersIdle
    /\ CompileIdle
    /\ PlannerFresh
    /\ house_map \in HouseMaps
    /\ unified_rooms \in RoomFiles
    /\ start_pos \in {c \in Cells(GridW, GridH) : c[1] = 0}
    /\ planner_pc = "load"

\* variant of LoadRooms: whatever cannot be read is replaced, an empty
\* registry for the registry and the grid of free cells for the grid
LoadRooms_substituting ==
    /\ planner_pc = "load"
    /\ planner_rooms' = IF unified_rooms.state = "ok" THEN unified_rooms.rooms
                        ELSE planner_rooms
    /\ planner_grid' = IF house_map.state = "ok" THEN <<house_map.grid>>
                       ELSE <<FallbackGrid>>
    /\ planner_pc' = "loop"
    /\ UNCHANGED <<search_vars, writer_vars, tile_vars, exec_vars, compile_vars, house_map, unified_rooms, start_pos,
                   goal_cell, object_location, last_mod, planned_path, plan_targets,
                   plan_paths, best_path, plan_calls, compiled, clock>>

\* load_rooms as main calls it; main returns when it returns False
LoadRooms ==
    /\ planner_pc = "load"
    /\ planner_rooms' = IF unified_rooms.state = "ok" THEN unified_rooms.rooms
                        ELSE planner_rooms
    /\ planner_grid' =
          IF unified_rooms.state # "ok" \/ house_map.state = "unreadable"
          THEN planner_grid
          ELSE IF house_map.state = "ok" THEN <<house_map.grid>>
          ELSE <<FallbackGrid>>
    /\ planner_pc' = IF unified_rooms.state # "ok" \/ house_map.state = "unreadable"
                     THEN "stopped" ELSE "loop"
    /\ UNCHANGED <<search_vars, writer_vars, tile_vars, exec_vars, compile_vars, house_map, unified_rooms, start_pos,
                   goal_cell, object_location, last_mod, planned_path, plan_targets,
                   plan_paths, best_path, plan_calls, compiled, clock>>

\* a request is written to OBJECT_LOCATION
WriteRequest ==
    /\ object_location.mtime < MaxRequests
    /\ \E room \in RequestRooms :
          object_location' = [exists |-> TRUE, mtime |-> object_location.mtime + 1,
                              room |-> room]
    /\ UNCHANGED <<search_vars, writer_vars, tile_vars, exec_vars, compile_vars, house_map, unified_rooms, planner_rooms,
                   planner_grid, start_pos, goal_cell, last_mod, planned_path,
                   plan_targets, plan_paths, best_path, plan_calls, planner_pc,
                   compiled, clock>>

\* lines 284-287 of main: the call of plan, targets and paths being what plan
\* found; the plan is written when there is one
CallPlan(targets, paths) ==
    /\ plan_targets' = targets
    /\ plan_paths' = paths
    /\ best_path' = best_of(paths, 1, <<>>)
    /\ planned_path' = IF plan_of_path(planner_rooms, best_of(paths, 1, <<>>)) # <<>>
                       THEN plan_of_path(planner_rooms, best_of(paths, 1, <<>>))
                       ELSE planned_path
    /\ plan_calls' = plan_calls + 1

\* plan with the grid g, from line 216 on
PlanOn(g, goal_room, targets) ==
    CallPlan(targets, candidate_paths(g, planner_rooms, start_pos, goal_room, targets))

\* variant of PollRequest: a request for which plan returned None is not
\* marked as seen
PollRequest_retrying ==
    /\ planner_pc = "loop"
    /\ object_location.exists
    /\ object_location.mtime > last_mod
    /\ IF object_location.room # "none"
       THEN IF planner_grid = <<>>
            THEN CallPlan(<<>>, <<>>)
            ELSE PlanOn(planner_grid[1], object_location.room,
                        door_targets(planner_grid[1], planner_rooms,
                                     object_location.room))
       ELSE UNCHANGED <<planned_path, plan_targets, plan_paths, best_path, plan_calls>>
    /\ last_mod' = IF best_path' = <<>> THEN last_mod ELSE object_location.mtime
    /\ UNCHANGED <<search_vars, writer_vars, tile_vars, exec_vars, compile_vars, house_map, unified_rooms, planner_rooms,
                   planner_grid, start_pos, goal_cell, object_location, planner_pc,
                   compiled, clock>>

\* one pass of the loop of main that finds a newer request
PollRequest ==
    /\ planner_pc = "loop"
    /\ object_location.exists
    /\ object_location.mtime > last_mod
    /\ IF object_location.room # "none"
       THEN IF planner_grid = <<>>
            THEN CallPlan(<<>>, <<>>)
            ELSE PlanOn(planner_grid[1], object_location.room,
                        door_targets(planner_grid[1], planner_rooms,
                                     object_location.room))
       ELSE UNCHANGED <<planned_path, plan_targets, plan_paths, best_path, plan_calls>>
    /\ last_mod' = object_location.mtime
    /\ UNCHANGED <<search_vars, writer_vars, tile_vars, exec_vars, compile_vars, house_map, unified_rooms, planner_rooms,
                   planner_grid, start_pos, goal_cell, object_location, planner_pc,
                   compiled, clock>>

PlannerNext == LoadRooms \/ WriteRequest \/ PollRequest

PlannerSpec == PlannerInit /\ [][PlannerNext]_vars

\* -------------------------------------------------- a_star on an open floor
\* a grid of wd by ht free cells
OpenFloor(wd, ht) == [w |-> wd, h |-> ht, code |-> [c \in Cells(wd, ht) |-> 0]]

\* the one room, allowed or the goal room itself, that covers the floor
FloorRooms(wd, ht) ==
    {<<[name |-> n, bbox |-> <<0, 0, wd, ht>>, doors |-> <<>>, entries |-> <<>>]>>
     : n \in {"hallway", "Kitchen"}}

SearchInit ==
    /\ ExecInit
    /\ OthersIdle
    /\ CompileIdle
    /\ house_map = [state |-> "missing", grid |-> NoGrid]
    /\ unified_rooms = [state |-> "missing", rooms |-> <<>>]
    /\ object_location = [exists |-> FALSE, mtime |-> 0, room |-> "none"]
    /\ last_mod = 0
    /\ planned_path = <<>>
    /\ plan_targets = <<>>
    /\ plan_paths = <<>>
    /\ best_path = <<>>
    /\ plan_calls = 0
    /\ compiled = <<>>
    /\ clock = 0
    /\ planner_pc = "search"
    /\ \E wd \in 1..GridW, ht \in 1..GridH :
          /\ planner_grid = <<OpenFloor(wd, ht)>>
          /\ planner_rooms \in FloorRooms(wd, ht)
          /\ start_pos \in Cells(wd, ht)
          /\ goal_cell \in Cells(wd, ht)

\* plan's call of a_star for the target goal_cell of the room Kitchen
SearchPath ==
    /\ planner_pc = "search"
    /\ best_path' = a_star(planner_grid[1], planner_rooms, start_pos, goal_cell,
                           AllowedRooms("Kitchen"))
    /\ planner_pc' = "searched"
    /\ UNCHANGED <<search_vars, writer_vars, tile_vars, exec_vars, compile_vars, house_map, unified_rooms, planner_rooms,
                   planner_grid, start_pos, goal_cell, object_location, last_mod,
                   planned_path, plan_targets, plan_paths, plan_calls, compiled, clock>>

SearchSpec == SearchInit /\ [][SearchPath]_vars

\* ------------------------------------------------- the tile manager
\* object classes as the detections name them, a name being its words
ObjectClasses ==
    {<<"chair">>, <<"Chair">>, <<"table">>, <<"lamp">>, <<"door">>}

\* str.lower() on the words in use
LowerWord(w) == IF w = "Chair" THEN "chair" ELSE w

\* object_class.lower().strip()
obj_key(object_class) == [i \in 1..Len(object_class) |-> LowerWord(object_class[i])]

\* the words in use in the order Python sorts them in
WordOrder == <<"chair", "door", "lamp", "table", "unknown">>

\* a < b for two one-word names
Before(a, b) ==
    \E i, j \in 1..Len(WordOrder) : i < j /\ WordOrder[i] = a[1] /\ WordOrder[j] = b[1]

\* get_tile_type, lines 43-52: the manager it leaves and the code it returns
get_tile_type(self, object_class) ==
    IF obj_key(object_class) \in DOMAIN self.tile_registry
    THEN [self |-> self, code |-> self.tile_registry[obj_key(object_class)]]
    ELSE [self |-> [tile_registry |-> [n \in DOMAIN self.tile_registry
                                         \cup {obj_key(object_class)} |->
                                       IF n = obj_key(object_class)
                                       THEN self.next_tile_id
                                       ELSE self.tile_registry[n]],
                    id_to_name    |-> [c \in DOMAIN self.id_to_name
                                         \cup {self.next_tile_id} |->
                                       IF c = self.next_tile_id
                                       THEN obj_key(object_class)
                                       ELSE self.id_to_name[c]],
                    next_tile_id  |-> self.next_tile_id + 1],
          code |-> self.next_tile_id]

\* self.id_to_name.get(existing_tile_id, "unknown")
existing_name(self, existing_tile_id) ==
    IF existing_tile_id \in DOMAIN self.id_to_name
    THEN self.id_to_name[existing_tile_id] ELSE <<"unknown">>

\* " and " in name
IsOverlapName(name) == \E i \in 2..(Len(name) - 1) : name[i] = "and"

\* get_overlap_tile_type, lines 54-74
get_overlap_tile_type(self, existing_tile_id, new_object_class) ==
    IF existing_tile_id \in {0, 1, 2, 3}
    THEN get_tile_type(self, new_object_class)
    ELSE IF existing_name(self, existing_tile_id) = obj_key(new_object_class)
    THEN [self |-> self, code |-> existing_tile_id]
    ELSE IF IsOverlapName(existing_name(self, existing_tile_id))
    THEN [self |-> self, code |-> existing_tile_id]
    ELSE IF Before(existing_name(self, existing_tile_id), obj_key(new_object_class))
    THEN get_tile_type(self, existing_name(self, existing_tile_id) \o <<"and">>
                                \o obj_key(new_object_class))
    ELSE get_tile_type(self, obj_key(new_object_class) \o <<"and">>
                                \o existing_name(self, existing_tile_id))

\* the mapper asks for the tile of an object on a free cell
GetTileType ==
    /\ tiles.next_tile_id < 4 + MaxTiles
    /\ \E object_class \in ObjectClasses :
          tiles' = get_tile_type(tiles, object_class).self
    /\ UNCHANGED <<exec_vars, compile_vars, planner_vars, search_vars, writer_vars>>

\* the mapper asks for the tile of an object on a cell that holds a tile: one
\* of the registry, or one that the registry does not know
GetOverlapTileType ==
    /\ tiles.next_tile_id < 4 + MaxTiles
    /\ \E existing_tile_id \in 0..tiles.next_tile_id, object_class \in ObjectClasses :
          tiles' = get_overlap_tile_type(tiles, existing_tile_id, object_class).self
    /\ UNCHANGED <<exec_vars, compile_vars, planner_vars, search_vars, writer_vars>>

TileNext == GetTileType \/ GetOverlapTileType

TileSpec == Init /\ [][TileNext]_vars

\* ------------------------------------- the first pass of a_star's loop
\* open_q after the first pass of the while loop, lines 101-137: the start
\* cell is popped and each cell to enter next to it is pushed as (f, g, cell)
first_pass(grid, registry, start, goal, allowed_rooms) ==
    Relaxed(goal, {}, << >>, (start :> 0), 0, start,
            Improving(grid, registry, allowed_rooms, (start :> 0), 0, start)).open_q

\* a_star on its way from a start cell that is not the target
ExpandStart ==
    /\ expanded = <<>>
    /\ start_pos # goal_cell
    /\ expanded' = <<first_pass(planner_grid[1], planner_rooms, start_pos, goal_cell,
                                AllowedRooms("Kitchen"))>>
    /\ UNCHANGED <<exec_vars, compile_vars, planner_vars, writer_vars, tile_vars>>

HeuristicNext == SearchPath \/ ExpandStart

\* a_star on an open floor, its first pass apart and as a whole
HeuristicSpec == SearchInit /\ [][HeuristicNext]_vars

\* ------------------------------------------- a_star on a floor with a wall
\* the registries of a floor with a wall: the goal room, no door or entry of
\* it listed, and with or without the room of column 0
MazeRegistries ==
    {r \in Registries : r[Len(r)].doors = <<>> /\ r[Len(r)].entries = <<>>}

\* a_star is called for any two cells of a grid whose column 1 is a wall
\* with or without gaps, doors and entries: the start may be a wall cell
\* or a cell of a room that is not to be crossed, and so may the target
MazeInit ==
    /\ ExecInit
    /\ OthersIdle
    /\ CompileIdle
    /\ house_map = [state |-> "missing", grid |-> NoGrid]
    /\ unified_rooms = [state |-> "missing", rooms |-> <<>>]
    /\ object_location = [exists |-> FALSE, mtime |-> 0, room |-> "none"]
    /\ last_mod = 0
    /\ planned_path = <<>>
    /\ plan_targets = <<>>
    /\ plan_paths = <<>>
    /\ best_path = <<>>
    /\ plan_calls = 0
    /\ compiled = <<>>
    /\ clock = 0
    /\ planner_pc = "search"
    /\ planner_grid \in {<<g>> : g \in Grids}
    /\ planner_rooms \in MazeRegistries
    /\ start_pos \in Cells(GridW, GridH)
    /\ goal_cell \in Cells(GridW, GridH)

MazeSpec == MazeInit /\ [][SearchPath]_vars

\* -------------------------------------------- a path compiled to agent steps
\* a strip of four cells: Kitchen, Hallway, Bedroom, and a cell of no room
StripRegistry ==
    <<[name |-> "Kitchen", bbox |-> <<0, 0, 1, 1>>, doors |-> <<<<0, 0>>>>,
       entries |-> <<>>],
      [name |-> "Hallway", bbox |-> <<1, 0, 2, 1>>, doors |-> <<>>, entries |-> <<>>],
      [name |-> "Bedroom", bbox |-> <<2, 0, 3, 1>>, doors |-> <<>>,
       entries |-> <<<<2, 0>>>>]>>

StripCells == {<<0, 0>>, <<1, 0>>, <<2, 0>>, <<3, 0>>}

\* the cell paths of at most MaxPath cells
CellPaths == UNION {[1..k -> StripCells] : k \in 0..MaxPath}

KeyPointInit ==
    /\ ExecInit
    /\ OthersIdle
    /\ waypoints = <<>>
    /\ target \in {"", "keys"}
    /\ include_wall \in BOOLEAN
    /\ plan = <<>>
    /\ commands_txt = <<>>
    /\ parsed = <<>>
    /\ stage = "idle"
    /\ house_map = [state |-> "missing", grid |-> NoGrid]
    /\ unified_rooms = [state |-> "ok", rooms |-> StripRegistry]
    /\ planner_rooms = StripRegistry
    /\ planner_grid = <<>>
    /\ start_pos = <<0, 0>>
    /\ goal_cell = <<0, 0>>
    /\ object_location = [exists |-> FALSE, mtime |-> 0, room |-> "none"]
    /\ last_mod = 0
    /\ planned_path = <<>>
    /\ plan_targets = <<>>
    /\ plan_paths = <<>>
    /\ best_path \in CellPaths
    /\ plan_calls = 0
    /\ planner_pc = "compile"
    /\ compiled = <<>>
    /\ clock = 0

\* what plan and build_agent_plan make of the path at the time now
compile_path(registry, path, objective, with_wall, now) ==
    [timestamp        |-> now,
     waypoints        |-> identify_key_points(registry, path),
     segments         |-> calc_distances(identify_key_points(registry, path)).segs,
     total_distance_m |-> calc_distances(identify_key_points(registry, path)).total,
     steps            |-> build_agent_plan(identify_key_points(registry, path),
                                           objective, with_wall)]

\* best_path is compiled, a first time and then once more
CompilePath ==
    /\ planner_pc = "compile"
    /\ Len(compiled) < 2
    /\ compiled' = Append(compiled, compile_path(planner_rooms, best_path, target,
                                                 include_wall, clock))
    /\ clock' \in {clock, clock + 1}
    /\ UNCHANGED <<search_vars, writer_vars, tile_vars, exec_vars, compile_vars, house_map, unified_rooms, planner_rooms,
                   planner_grid, start_pos, goal_cell, object_location, last_mod,
                   planned_path, plan_targets, plan_paths, best_path, plan_calls,
                   planner_pc>>

KeyPointSpec == KeyPointInit /\ [][CompilePath]_vars

\* ------------------------------------------- the scenario of the door cell
\* a grid of ten by ten cells, free but for the wall of column 5, whose cell
\* of row 9 is a door
ScenarioGrid ==
    [w |-> 10, h |-> 10,
     code |-> [c \in Cells(10, 10) |->
                 IF c[1] # 5 THEN 0 ELSE IF c[2] = 9 THEN 3 ELSE 1]]

\* the goal room, right of the wall, declares the door cell
ScenarioRegistry ==
    <<[name |-> "Kitchen", bbox |-> <<6, 0, 10, 10>>, doors |-> <<<<5, 9>>>>,
       entries |-> <<>>]>>

\* the planner starts in a cell of column 0
ScenarioInit ==
    /\ ExecInit
    /\ OthersIdle
    /\ waypoints = <<>>
    /\ target \in {"", "keys"}
    /\ include_wall \in BOOLEAN
    /\ plan = <<>>
    /\ commands_txt = <<>>
    /\ parsed = <<>>
    /\ stage = "idle"
    /\ PlannerFresh
    /\ house_map = [state |-> "ok", grid |-> ScenarioGrid]
    /\ unified_rooms = [state |-> "ok", rooms |-> ScenarioRegistry]
    /\ start_pos \in {c \in Cells(10, 10) : c[1] = 0}
    /\ planner_pc = "load"

\* one pass of main of route_to_agents over planned_path.json: the plan is
\* built of the waypoints and written, as JSON and as text.  The house it was
\* loaded with lists a door of the Kitchen, as ScenarioRegistry does, and
\* has_doors asks no more of it.  A pass over a file that did not change since
\* the pass before would write the same plan again, so the guard on the
\* file's mtime is left out.
RouteCompile ==
    /\ planned_path # <<>>
    /\ waypoints' = planned_path[1].waypoints
    /\ plan' = build_agent_plan(planned_path[1].waypoints, target, include_wall)
    /\ commands_txt' =
          plan_to_text(build_agent_plan(planned_path[1].waypoints, target, include_wall))
    /\ stage' = "written"
    /\ UNCHANGED <<search_vars, writer_vars, tile_vars, exec_vars, planner_vars, target, include_wall, parsed>>

ScenarioNext == PlannerNext \/ RouteCompile

ScenarioSpec == ScenarioInit /\ [][ScenarioNext]_vars

\* ------------------------------------ the planner while its sources change
\* the house maps that unified_rooms.json and house_map.txt go through: the
\* lowest cells of column 1 are doors, its top cell a door or a wall
ReloadGrids ==
    {g \in Grids : /\ g.code[<<1, 0>>] \in {1, 3}
                   /\ \A y \in 1..(GridH - 1) : g.code[<<1, y>>] = 3}

\* the registries of the goal room alone, with doors and no entry listed
ReloadRegistries ==
    {r \in Registries : Len(r) = 1 /\ r[1].bbox[1] = 1 /\ r[1].doors # <<>>
                                   /\ r[1].entries = <<>>}

ReloadInit ==
    /\ ExecInit
    /\ OthersIdle
    /\ CompileIdle
    /\ PlannerFresh
    /\ house_map \in {[state |-> "ok", grid |-> g] : g \in ReloadGrids}
    /\ unified_rooms \in {[state |-> "ok", rooms |-> r] : r \in ReloadRegistries}
    /\ start_pos = <<0, 0>>
    /\ planner_pc = "load"

\* unified_rooms.json is written anew, with another registry
RewriteRooms ==
    /\ \E r \in ReloadRegistries :
          /\ r # unified_rooms.rooms
          /\ unified_rooms' = [state |-> "ok", rooms |-> r]
    /\ UNCHANGED <<search_vars, writer_vars, tile_vars, exec_vars, compile_vars, house_map, planner_rooms, planner_grid,
                   start_pos, goal_cell, object_location, last_mod, planned_path,
                   plan_targets, plan_paths, best_path, plan_calls, planner_pc,
                   compiled, clock>>

\* house_map.txt is written anew, with another grid
RewriteMap ==
    /\ \E g \in ReloadGrids :
          /\ g # house_map.grid
          /\ house_map' = [state |-> "ok", grid |-> g]
    /\ UNCHANGED <<search_vars, writer_vars, tile_vars, exec_vars, compile_vars, unified_rooms, planner_rooms, planner_grid,
                   start_pos, goal_cell, object_location, last_mod, planned_path,
                   plan_targets, plan_paths, best_path, plan_calls, planner_pc,
                   compiled, clock>>

ReloadNext == PlannerNext \/ RewriteRooms \/ RewriteMap

ReloadSpec == ReloadInit /\ [][ReloadNext]_vars

\* ------------------------------------------------------------- observations
\* the step is a call of get_actions
IsTick == action' # "none"

\* the cursor and the steps as the load attempt of the tick left them
CursorAfterLoad == IF loaded' THEN 0 ELSE current_step_index

StepsAfterLoad ==
    IF loaded' THEN parse_mission_steps(mission_text') ELSE mission_steps

\* the tick read a current step, and which
HasDispatched == IsTick /\ dispatched' >= 0

DispatchedStep == mission_steps'[dispatched' + 1]

\* the two step lists hold the same steps, whatever their completed flags
SameSteps(steps, others) ==
    /\ Len(steps) = Len(others)
    /\ \A i \in 1..Len(steps) :
          /\ steps[i].step_number = others[i].step_number
          /\ steps[i].agent_type = others[i].agent_type
          /\ steps[i].action_description = others[i].action_description
          /\ steps[i].target_location = others[i].target_location

\* Manhattan distance to the door of the room, as is_near_door computes it
DoorDistance(current_pos, room_name) ==
    Abs(current_pos[1] - get_door_position(room_name)[1])
        + Abs(current_pos[2] - get_door_position(room_name)[2])

Actions == {"STAY", "TURN_RIGHT", "FORWARD", "nav_action", "door_action", "wall_action"}

\* the tick dispatched a Door step whose room has a door in the registry
DoorStepWithDoor ==
    /\ HasDispatched
    /\ DispatchedStep.agent_type = "DOOR"
    /\ DispatchedStep.target_location # <<>>
    /\ get_door_position(DispatchedStep.target_location) # <<>>

\* -------------------------------------------------------------- properties
\* C1: within a loaded mission every tick returns an action (STAY when it
\* raised), leaves the cursor where the load attempt left it or moves it one
\* step on, moves it only when is_agent_complete returned true for the step
\* it dispatched, and exactly the steps before the cursor are completed.
C1_CursorMovesOnCompletion ==
    [][IsTick =>
        /\ action' \in Actions
        /\ (raised' => action' = "STAY")
        /\ current_step_index' \in {CursorAfterLoad, CursorAfterLoad + 1}
        /\ current_step_index' <= Len(mission_steps')
        /\ (current_step_index' = CursorAfterLoad + 1 =>
                complete' /\ ~raised' /\ dispatched' = CursorAfterLoad)
        /\ \A i \in 1..Len(mission_steps') :
                mission_steps'[i].completed <=> i <= current_step_index'
      ]_vars

\* a tick without load in which a completion moved the cursor past a step
C1_Witness ==
    /\ action # "none" /\ ~loaded /\ complete /\ ~raised
    /\ dispatched >= 0
    /\ current_step_index = dispatched + 1
    /\ mission_steps[current_step_index].completed

\* C2: a tick that dispatches a Door step with no sub-agent active and the
\* agent farther than NearSwitch from the room's door has Navigation compute
\* the action and does not activate the Door sub-agent; while the deferred
\* Navigation is active the Door sub-agent becomes active only in a tick in
\* which completion was reported, and the cursor stays on the Door step.
C2_NavigationBeforeDoor ==
    [][/\ (/\ DoorStepWithDoor
           /\ active_agent = "none"
           /\ DoorDistance(positions', DispatchedStep.target_location) > NearSwitch)
          => /\ active_agent' # "door_agent"
             /\ current_step_index' = dispatched'
             /\ (~raised' => invoked' = "navigation_agent")
       /\ (/\ HasDispatched
           /\ DispatchedStep.agent_type = "DOOR"
           /\ active_agent = "navigation_agent"
           /\ active_agent_type = "NAVIGATION")
          => /\ (active_agent' = "door_agent" => complete')
             /\ current_step_index' = dispatched'
      ]_vars

\* the first tick of a mission on a Door step, four tiles from the door:
\* Navigation is active and the cursor is on the Door step
C2_Witness ==
    /\ action # "none" /\ loaded /\ last_mission_time = 1
    /\ dispatched = 0 /\ current_step_index = 0
    /\ mission_steps[1].agent_type = "DOOR"
    /\ positions = <<2, 2>>
    /\ invoked = "navigation_agent"
    /\ active_agent = "navigation_agent" /\ active_agent_type = "NAVIGATION"

\* C3: after a tick that loaded a newer mission the step list is the parse
\* of the text read, the step dispatched was step 0 of it, at most step 0 is
\* completed and only by a completion in that tick; a step that loads
\* nothing leaves the steps of the mission as they are, completed flags apart.
C3_MissionReplaced ==
    /\ [](loaded =>
            /\ \E new \in {parse_mission_steps(mission_text)} :
                    SameSteps(mission_steps, new)
            /\ last_mission_time = mission_file.mtime
            /\ dispatched \in {-1, 0}
            /\ current_step_index \in {0, 1}
            /\ (current_step_index = 1 => complete)
            /\ \A i \in 1..Len(mission_steps) :
                    mission_steps[i].completed <=> i <= current_step_index)
    /\ [][(~loaded' /\ mission_steps' # <<>>) =>
            /\ SameSteps(mission_steps', mission_steps)
            /\ mission_text' = mission_text
         ]_vars

\* the second mission is loaded over a first one that had run to its end,
\* and its step 0 is dispatched
C3_Witness ==
    /\ action # "none" /\ loaded /\ last_mission_time = 2
    /\ execution_state = "COMPLETED"
    /\ dispatched = 0
    /\ mission_steps # <<>>
    /\ ~mission_steps[1].completed

\* C4 as stated: when a tick loads a newer mission while a sub-agent is
\* active, step 0 of the new mission is served by the sub-agent of its own
\* type, freshly reset (a scanner at its first scan step, no sub-agent for an
\* Unknown step).
C4_ActiveAgentCleared ==
    [][(IsTick /\ loaded' /\ ~raised' /\ dispatched' = 0 /\ active_agent # "none") =>
        /\ (mission_steps'[1].agent_type = "SCAN" =>
                invoked' = "scanner" /\ scan_steps' = 1)
        /\ (mission_steps'[1].agent_type = "NAVIGATION" =>
                invoked' = "navigation_agent")
        /\ (mission_steps'[1].agent_type = "UNKNOWN" => invoked' = "none")
      ]_vars

\* the deferred navigation of a Door step reported completion in this tick:
\* Navigation computed the action as the Navigation-typed active sub-agent
\* (activated in this tick or before) and is_agent_complete returned true
DeferredNavigationCompleted ==
    /\ DoorStepWithDoor
    /\ invoked' = "navigation_agent"
    /\ complete'
    /\ ~raised'
    /\ \/ active_agent = "none"
       \/ active_agent = "navigation_agent" /\ active_agent_type = "NAVIGATION"

C7_RaiseLeavesCursor ==
    [][(IsTick /\ raised') =>
        /\ action' = "STAY"
        /\ current_step_index' = current_step_index
        /\ \A i \in DOMAIN mission_steps \cap DOMAIN mission_steps' :
                mission_steps'[i].completed = mission_steps[i].completed
      ]_vars

\* C7 amended: a tick that raises returns STAY and leaves the cursor and the
\* steps as its load attempt left them (a mission loaded in the tick stays
\* loaded, cursor 0, nothing completed); the next tick, unless it loads a
\* mission, reads the same step.
C7_RaiseLeavesCursorAfterLoad ==
    /\ [](raised /\ loaded =>
            /\ action = "STAY"
            /\ current_step_index = 0
            /\ mission_steps = parse_mission_steps(mission_text))
    /\ [][/\ ((IsTick /\ raised' /\ ~loaded') =>
                (/\ action' = "STAY"
                 /\ current_step_index' = current_step_index
                 /\ mission_steps' = mission_steps))
           /\ ((IsTick /\ raised /\ ~loaded') =>
                (/\ dispatched' = dispatched
                 /\ (dispatched >= 0 => current_step_index = dispatched)))
          ]_vars

\* a tick loaded the second mission over a finished first one and raised
C7_Witness ==
    /\ action = "STAY" /\ raised /\ loaded
    /\ last_mission_time = 2
    /\ execution_state = "COMPLETED"
    /\ mission_steps # <<>>
    /\ current_step_index = 0

\* C8: with the cursor at the step count of a non-empty mission, a tick that
\* loads no mission returns STAY without raising, reports COMPLETED, invokes
\* no sub-agent and changes neither cursor nor steps.
C8_CompleteMissionStays ==
    [][(/\ IsTick /\ ~loaded'
        /\ mission_steps # <<>>
        /\ current_step_index = Len(mission_steps)) =>
        /\ action' = "STAY"
        /\ ~raised'
        /\ execution_state' = "COMPLETED"
        /\ invoked' = "none"
        /\ dispatched' = -1
        /\ current_step_index' = current_step_index
        /\ mission_steps' = mission_steps
      ]_vars

\* a tick on a finished mission
C8_Witness ==
    /\ action = "STAY" /\ ~loaded /\ ~complete /\ ~raised
    /\ invoked = "none"
    /\ mission_steps # <<>>
    /\ current_step_index = Len(mission_steps)
    /\ execution_state = "COMPLETED"

\* C9 as stated: a tick whose load attempt leaves the step list empty returns
\* the wall follower's action and changes neither cursor nor active slot
\* (stated for the ticks in which the wall follower does not raise).
C9_FallbackLeavesCursor ==
    [][(IsTick /\ mission_steps' = <<>> /\ ~raised') =>
        /\ action' = "wall_action"
        /\ invoked' = "wall_agent"
        /\ current_step_index' = current_step_index
        /\ active_agent' = active_agent
      ]_vars

\* C9 amended: a tick whose load attempt leaves the step list empty has the
\* wall follower compute the action (STAY when it raises) and leaves the
\* active slot alone; the cursor is 0 when the tick loaded a file without a
\* parsable line and unchanged otherwise.
C9_FallbackResetsCursorOnLoad ==
    [][(IsTick /\ mission_steps' = <<>>) =>
        /\ invoked' = "wall_agent"
        /\ action' = (IF raised' THEN "STAY" ELSE "wall_action")
        /\ dispatched' = -1
        /\ active_agent' = active_agent
        /\ active_agent_type' = active_agent_type
        /\ current_step_index' = CursorAfterLoad
      ]_vars

\* a tick loaded a file without a parsable line over a finished mission and
\* fell back to the wall follower with the cursor back at 0
C9_Witness ==
    /\ action = "wall_action" /\ loaded
    /\ mission_text # <<>>
    /\ mission_steps = <<>>
    /\ execution_state = "COMPLETED"
    /\ current_step_index = 0

\* C5 as stated, in the form a finite run refutes: when no other mission
\* arrives and no tick raises, a mission with steps left is never in a state
\* that every tick leaves as it is, whatever the sub-agents report and
\* wherever the agent stands (from such a state the cursor never reaches the
\* step count).
C5_MissionRunsToEnd ==
    (mission_steps # <<>> /\ current_step_index < Len(mission_steps)) =>
        \E r \in QuietResults : r # Self

\* C10 as stated: the parse of the text of a plan has one step per step of
\* the plan, in order, with its ordinal and the type of its agent.
C10_TextKeepsSteps ==
    stage = "parsed" =>
        /\ Len(parsed) = Len(plan)
        /\ \A i \in 1..Len(plan) :
              i <= Len(parsed) =>
                /\ parsed[i].step_number = plan[i].n
                /\ parsed[i].agent_type = AgentTypeOf(plan[i].agent)

\* the calls of get_scan_action since the scanner's reset, this tick's included:
\* a scanner that was not active before the tick was reset by its activation
CallsSinceReset == IF active_agent = "scanner" THEN scan_steps + 1 ELSE 1

\* C11: in a tick in which the scanner computes the action, the call is the
\* k-th since the scanner's reset and returns STAY when k >= 30, else
\* TURN_RIGHT when k is a multiple of 4, else FORWARD; without reading the
\* agent's position; is_agent_complete returns true exactly when k >= 30, and
\* exactly then the dispatched step is completed and the cursor moves one on.
C11_ScanPattern ==
    [][(IsTick /\ invoked' = "scanner") =>
        /\ scan_steps' = CallsSinceReset
        /\ scan_steps' <= max_scan_steps
        /\ action' = (IF CallsSinceReset >= 30 THEN "STAY"
                      ELSE IF CallsSinceReset % 4 = 0 THEN "TURN_RIGHT"
                      ELSE "FORWARD")
        /\ positions' = <<0, 0>>
        /\ (complete' <=> CallsSinceReset >= 30)
        /\ current_step_index' =
              CursorAfterLoad + (IF CallsSinceReset >= 30 THEN 1 ELSE 0)
        /\ (CallsSinceReset >= 30 => mission_steps'[dispatched' + 1].completed)
      ]_vars

\* the 30th call since the reset completed a Scan step
C11_Witness ==
    /\ invoked = "scanner" /\ scan_steps = 30 /\ action = "STAY" /\ complete
    /\ dispatched >= 0
    /\ mission_steps[dispatched + 1].agent_type = "SCAN"
    /\ current_step_index = dispatched + 1

\* the path leads from cell to neighbouring cell of the grid
IsWalk(grid, path) ==
    /\ \A i \in 1..Len(path) : _in_bounds(grid, path[i][1], path[i][2])
    /\ \A i \in 1..(Len(path) - 1) :
          /\ path[i] # path[i + 1]
          /\ Abs(path[i][1] - path[i + 1][1]) <= 1
          /\ Abs(path[i][2] - path[i + 1][2]) <= 1

\* the 8-connected distance of two cells: |dx - dy| axis moves and min(dx, dy)
\* diagonal moves
OctileDistance(a, b) ==
    Abs(Abs(a[1] - b[1]) - Abs(a[2] - b[2])) * AxisCost
    + (IF Abs(a[1] - b[1]) < Abs(a[2] - b[2])
       THEN Abs(a[1] - b[1]) ELSE Abs(a[2] - b[2])) * DiagCost

\* C12: on a grid of free cells covered by one room that a_star may cross, the
\* path a_star returns leads from the start cell to the target cell, cell by
\* neighbouring cell, at a cost of 1.0 per axis move and 1.414 per diagonal
\* move that equals |dx - dy| * 1.0 + min(dx, dy) * 1.414.
C12_OptimalOnOpenFloor ==
    planner_pc = "searched" =>
        /\ best_path # <<>>
        /\ best_path[1] = start_pos
        /\ best_path[Len(best_path)] = goal_cell
        /\ IsWalk(planner_grid[1], best_path)
        /\ PathCost(best_path) = OctileDistance(start_pos, goal_cell)

\* a search whose path takes an axis move and a diagonal move
C12_Witness ==
    /\ planner_pc = "searched"
    /\ Abs(start_pos[1] - goal_cell[1]) = 2
    /\ Abs(start_pos[2] - goal_cell[2]) = 1
    /\ Len(best_path) = 3
    /\ PathCost(best_path) = AxisCost + DiagCost

\* the last request was polled, and plan was called for it
Planned ==
    /\ planner_pc = "loop"
    /\ object_location.exists
    /\ object_location.room # "none"
    /\ last_mod = object_location.mtime

\* the door cells of column 1 of the grid
DoorCells(grid) ==
    {c \in Cells(grid.w, grid.h) : c[1] = 1 /\ grid.code[c] \in Connectors}

\* column 1 of the house map is a wall with exactly one door or entry in it
OneDoorWall(grid) ==
    /\ house_map.state = "ok"
    /\ Cardinality(DoorCells(grid)) = 1
    /\ \A c \in Cells(grid.w, grid.h) : c[1] = 1 => grid.code[c] \in Connectors \cup {1}

\* C13: when the start is in column 0, the goal room lies on the other side
\* of column 1 and column 1 is a wall with exactly one door cell, the path of
\* a plan that plan returns holds that door cell.
C13_PathThroughDoor ==
    (/\ Planned
     /\ object_location.room = "Kitchen"
     /\ OneDoorWall(planner_grid[1])
     /\ best_path # <<>>)
    => \E i \in 1..Len(best_path) : best_path[i] \in DoorCells(planner_grid[1])

\* a path that crosses the wall by its door to a target behind it
C13_Witness ==
    /\ Planned
    /\ object_location.room = "Kitchen"
    /\ OneDoorWall(planner_grid[1])
    /\ Len(best_path) >= 3
    /\ best_path[Len(best_path)][1] = 2
    /\ best_path[2] \in DoorCells(planner_grid[1])

\* the coordinates the registry lists as doors or entries of the room
Listed(registry, room_name) ==
    {RoomInfo(registry, room_name).doors[i] :
        i \in 1..Len(RoomInfo(registry, room_name).doors)}
    \cup {RoomInfo(registry, room_name).entries[i] :
            i \in 1..Len(RoomInfo(registry, room_name).entries)}

\* those of them that are on the grid and coded door or entry there
ListedAndCoded(grid, registry, room_name) ==
    {p \in Listed(registry, room_name) :
        /\ 0 <= p[1] /\ p[1] < grid.w /\ 0 <= p[2] /\ p[2] < grid.h
        /\ grid.code[p] \in {3, 8}}

\* the cell is a free, door or entry cell of the grid inside the room's bbox
WalkableInBbox(grid, registry, room_name, p) ==
    /\ Len(RoomInfo(registry, room_name).bbox) = 4
    /\ RoomInfo(registry, room_name).bbox[1] <= p[1]
    /\ p[1] < RoomInfo(registry, room_name).bbox[3]
    /\ RoomInfo(registry, room_name).bbox[2] <= p[2]
    /\ p[2] < RoomInfo(registry, room_name).bbox[4]
    /\ 0 <= p[1] /\ p[1] < grid.w /\ 0 <= p[2] /\ p[2] < grid.h
    /\ grid.code[p] \in {0, 3, 8}

\* C14: the path of a plan ends on a coordinate that the registry lists as door
\* or entry of the goal room and that the grid codes door or entry, whenever
\* there is such a coordinate; when there is none (none listed, listed off the
\* grid, or coded otherwise) the path ends on a free, door or entry cell
\* inside the goal room's bbox.
C14_PathEndsOnTarget ==
    (Planned /\ best_path # <<>>) =>
        IF ListedAndCoded(planner_grid[1], planner_rooms, object_location.room) # {}
        THEN best_path[Len(best_path)]
                \in ListedAndCoded(planner_grid[1], planner_rooms, object_location.room)
        ELSE WalkableInBbox(planner_grid[1], planner_rooms, object_location.room,
                            best_path[Len(best_path)])

\* the registry lists a door where the grid has none, and the path ends inside
\* the bbox
C14_Witness ==
    /\ Planned
    /\ best_path # <<>>
    /\ house_map.state = "ok"
    /\ Listed(planner_rooms, object_location.room) # {}
    /\ ListedAndCoded(planner_grid[1], planner_rooms, object_location.room) = {}
    /\ best_path[Len(best_path)] \notin Listed(planner_rooms, object_location.room)

\* the candidates of the last call of plan that a_star reached
Reached == {i \in 1..Len(plan_paths) : plan_paths[i] # <<>>}

IsPlanCall == plan_calls' = plan_calls + 1

\* C16: a call of plan in which a_star reaches none of the candidate targets
\* returns None, the loop leaves the planned path as it was and marks the
\* request as seen; plan is called only for a request whose modification time
\* is past the one last seen, so not again for a request already seen.
C16_UnreachableNotRetried ==
    /\ [][(IsPlanCall /\ \A i \in 1..Len(plan_paths') : plan_paths'[i] = <<>>) =>
            /\ best_path' = <<>>
            /\ planned_path' = planned_path
            /\ last_mod' = object_location.mtime]_vars
    /\ [][plan_calls' # plan_calls =>
            /\ IsPlanCall
            /\ last_mod < object_location.mtime
            /\ last_mod' = object_location.mtime
            /\ object_location' = object_location]_vars
    /\ [](last_mod <= object_location.mtime)

\* plan had candidate targets, a_star reached none of them, nothing was written
C16_Witness ==
    /\ Planned
    /\ plan_calls = 1
    /\ plan_targets # <<>>
    /\ Reached = {}
    /\ best_path = <<>>
    /\ planned_path = <<>>

\* C17 as stated: with the grid source or the registry missing or unreadable
\* the planner produces no plan, whatever is requested.
C17_NoPlanWithoutSources ==
    (house_map.state # "ok" \/ unified_rooms.state # "ok") =>
        best_path = <<>> /\ planned_path = <<>>

\* C17: with the registry missing or unreadable, or the grid source
\* unreadable, load_rooms fails, main returns and plan is never called; with
\* the grid source missing and the registry read, the planner plans on a grid
\* of FallbackSize by FallbackSize free cells.
C17_NoPlanWithoutRegistry ==
    /\ (unified_rooms.state # "ok" \/ house_map.state = "unreadable") =>
          /\ planner_pc \in {"load", "stopped"}
          /\ plan_calls = 0
          /\ best_path = <<>>
          /\ planned_path = <<>>
    /\ (house_map.state = "missing" /\ unified_rooms.state = "ok"
            /\ planner_pc # "load") =>
          /\ planner_pc = "loop"
          /\ planner_grid # <<>>
          /\ planner_grid[1].w = FallbackSize /\ planner_grid[1].h = FallbackSize
          /\ \A c \in DOMAIN planner_grid[1].code : planner_grid[1].code[c] = 0

\* the registry could not be read, main has returned, a request is left unseen
C17_Witness ==
    /\ unified_rooms.state = "unreadable"
    /\ planner_pc = "stopped"
    /\ object_location.exists
    /\ object_location.room = "Kitchen"
    /\ last_mod = 0
    /\ planned_path = <<>>

\* how many waypoints of the list carry one of the tags
CountOf(wps, tags) == Cardinality({i \in 1..Len(wps) : wps[i].type \in tags})

\* C18: the waypoints of a non-empty path begin with one tagged start at the
\* path's first cell and end with one tagged goal at the path's last cell,
\* each with the room of its cell, and no waypoint between them is tagged
\* start or goal.
C18_StartAndGoal ==
    \A k \in 1..Len(compiled) :
        best_path # <<>> =>
            /\ Len(compiled[k].waypoints) >= 2
            /\ compiled[k].waypoints[1].type = "start"
            /\ compiled[k].waypoints[1].point = best_path[1]
            /\ compiled[k].waypoints[Len(compiled[k].waypoints)].type = "goal"
            /\ compiled[k].waypoints[Len(compiled[k].waypoints)].point
                  = best_path[Len(best_path)]
            /\ CountOf(compiled[k].waypoints, {"start"}) = 1
            /\ CountOf(compiled[k].waypoints, {"goal"}) = 1

\* a path that changes room and ends outside every room, compiled
C18_Witness ==
    /\ compiled # <<>>
    /\ Len(best_path) >= 3
    /\ best_path[Len(best_path)] = <<3, 0>>
    /\ Len(compiled[1].waypoints) >= 4
    /\ compiled[1].waypoints[Len(compiled[1].waypoints)].room = "None"

\* the room that owns the cell
RoomOf(p) == get_room_at(planner_rooms, p[1], p[2])

\* the places of the path where the owning room changes between two cells
Changes(path) == {i \in 1..(Len(path) - 1) : RoomOf(path[i]) # RoomOf(path[i + 1])}

Entering == {"enter_room", "enter_hallway"}

\* the place of the first waypoint of the list that carries one of the tags
FirstOf(wps, tags) ==
    CHOOSE i \in 1..Len(wps) :
        wps[i].type \in tags /\ \A j \in 1..(i - 1) : wps[j].type \notin tags

\* C19 as stated: a path whose owning room changes exactly twice has exactly
\* one exit_room waypoint, followed later by exactly one enter_room or
\* enter_hallway waypoint, and exactly one start and one goal waypoint.
C19_OneExitThenOneEnter ==
    \A k \in 1..Len(compiled) :
        Cardinality(Changes(best_path)) = 2 =>
            /\ CountOf(compiled[k].waypoints, {"exit_room"}) = 1
            /\ CountOf(compiled[k].waypoints, Entering) = 1
            /\ FirstOf(compiled[k].waypoints, {"exit_room"})
                  < FirstOf(compiled[k].waypoints, Entering)
            /\ CountOf(compiled[k].waypoints, {"start"}) = 1
            /\ CountOf(compiled[k].waypoints, {"goal"}) = 1

\* C19: a path whose owning room changes exactly twice has one start and one
\* goal waypoint, one exit_room waypoint for each change that leaves a room,
\* and one enter_room or enter_hallway waypoint for each change that enters a
\* room; it has exactly one exit_room followed by exactly one enter waypoint
\* when it leaves a room for a no-room area and then enters a room.
C19_ExitAndEnterPerChange ==
    \A k \in 1..Len(compiled) :
        Cardinality(Changes(best_path)) = 2 =>
            /\ CountOf(compiled[k].waypoints, {"start"}) = 1
            /\ CountOf(compiled[k].waypoints, {"goal"}) = 1
            /\ CountOf(compiled[k].waypoints, {"exit_room"})
                  = Cardinality({i \in Changes(best_path) :
                                    RoomOf(best_path[i]) # "None"})
            /\ CountOf(compiled[k].waypoints, Entering)
                  = Cardinality({i \in Changes(best_path) :
                                    RoomOf(best_path[i + 1]) # "None"})
            /\ (\E i, j \in Changes(best_path) :
                    i < j /\ RoomOf(best_path[i + 1]) = "None")
                => /\ Len(compiled[k].waypoints) = 4
                   /\ compiled[k].waypoints[2].type = "exit_room"
                   /\ compiled[k].waypoints[3].type \in Entering

\* a path from a room through a no-room area into a room, compiled
C19_Witness ==
    /\ compiled # <<>>
    /\ Cardinality(Changes(best_path)) = 2
    /\ Len(compiled[1].waypoints) = 4
    /\ compiled[1].waypoints[2].type = "exit_room"
    /\ compiled[1].waypoints[2].room = "Kitchen"
    /\ compiled[1].waypoints[3].type = "enter_hallway"

StepsOf(agent) == {i \in 1..Len(plan) : plan[i].agent = agent}

\* the waypoints whose room differs from the room of the waypoint before
Transitions == {i \in 2..Len(waypoints) : waypoints[i].room # waypoints[i - 1].room}

\* the registry lists a door of the room
ListsDoor(room) == room \in DOMAIN rooms /\ rooms[room].doors # <<>>

\* the registry lists a door or an entry of the room
ListsDoorOrEntry(room) ==
    room \in DOMAIN rooms /\ (rooms[room].doors # <<>> \/ rooms[room].entries # <<>>)

\* the step after step i of the plan is the Door step of the room
DoorFollows(i, room) ==
    i < Len(plan) /\ plan[i + 1].agent = "DoorAgent" /\ plan[i + 1].room = room

\* C21: a compiled plan has no Door step for a room whose registry entry has
\* no door coordinate.
C21_NoDoorStepWithoutDoors ==
    stage # "path" =>
        \A i \in StepsOf("DoorAgent") : ListsDoor(plan[i].room)

C21_Witness ==
    /\ stage # "path"
    /\ \E i \in StepsOf("NavigationAgent") :
          plan[i].to.room = "Hallway" /\ ~DoorFollows(i, "Hallway")
    /\ \E i \in StepsOf("DoorAgent") : plan[i].room = "Kitchen"

\* C22 as stated: a plan has one Navigation step per room transition of the
\* waypoints, a Navigation step into a room is followed at once by the Door
\* step of the room exactly when the registry lists a door or an entry of the
\* room, and every Door step follows such a Navigation step.
C22_DoorStepIffDoorOrEntry ==
    stage # "path" =>
        /\ Cardinality(StepsOf("NavigationAgent")) = Cardinality(Transitions)
        /\ \A i \in StepsOf("NavigationAgent") :
              DoorFollows(i, plan[i].to.room) <=> ListsDoorOrEntry(plan[i].to.room)
        /\ \A i \in StepsOf("DoorAgent") :
              i > 1 /\ plan[i - 1].agent = "NavigationAgent"
                    /\ plan[i - 1].to.room = plan[i].room

\* C22: a plan has one Navigation step per room transition of the waypoints, a
\* Navigation step into a room is followed at once by the Door step of the room
\* exactly when the registry lists a door of the room (its entries do not
\* count), and every Door step follows such a Navigation step.
C22_DoorStepIffDoor ==
    stage # "path" =>
        /\ Cardinality(StepsOf("NavigationAgent")) = Cardinality(Transitions)
        /\ \A i \in StepsOf("NavigationAgent") :
              DoorFollows(i, plan[i].to.room) <=> ListsDoor(plan[i].to.room)
        /\ \A i \in StepsOf("DoorAgent") :
              i > 1 /\ plan[i - 1].agent = "NavigationAgent"
                    /\ plan[i - 1].to.room = plan[i].room

C22_Witness ==
    /\ stage # "path"
    /\ Cardinality(Transitions) = 2
    /\ \E i \in StepsOf("NavigationAgent") :
          plan[i].to.room = "Bedroom" /\ ~DoorFollows(i, "Bedroom")
    /\ \E i \in StepsOf("NavigationAgent") :
          plan[i].to.room = "Kitchen" /\ DoorFollows(i, "Kitchen")

\* the agents of the steps, in the order of the steps
AgentsOf(steps) == [i \in 1..Len(steps) |-> steps[i].agent]

\* C24: the mission compiled from a path of one cell, or from no path at all,
\* has no Navigation and no Door step: it is the Scan step alone, behind one
\* Wall step when the Wall option is on.
C24_ScanOnly ==
    \A k \in 1..Len(compiled) :
        Len(best_path) <= 1 =>
            /\ Len(compiled[k].waypoints) \in {0, 2}
            /\ AgentsOf(compiled[k].steps) =
                  IF include_wall THEN <<"WallAgent", "ScanAgent">> ELSE <<"ScanAgent">>

C24_Witness ==
    /\ Len(compiled) >= 1
    /\ Len(best_path) = 1
    /\ include_wall
    /\ compiled[1].steps[2].room = "Kitchen"

\* C25: a compiled plan has one Scan step, its last, for the room of the last
\* waypoint and with the target as objective; with the Wall option it has one
\* Wall step, right before the Scan step, and without it none; the ordinals of
\* the steps are 1..n in the order of the list.
C25_PlanShape ==
    stage # "path" =>
        /\ StepsOf("ScanAgent") = {Len(plan)}
        /\ plan[Len(plan)].room =
              IF waypoints # <<>> THEN waypoints[Len(waypoints)].room ELSE "unknown"
        /\ plan[Len(plan)].objective = target
        /\ StepsOf("WallAgent") = IF include_wall THEN {Len(plan) - 1} ELSE {}
        /\ \A i \in 1..Len(plan) : plan[i].n = i

C25_Witness ==
    /\ stage # "path"
    /\ include_wall
    /\ target = "keys"
    /\ Len(plan) = 5
    /\ plan[2].agent = "DoorAgent"

\* the cells of the path
CellsOf(path) == {path[i] : i \in 1..Len(path)}

\* the plan compiled is the plan of the path that plan found last
CompiledLast ==
    /\ stage = "written"
    /\ planned_path # <<>>
    /\ waypoints = planned_path[1].waypoints
    /\ best_path # <<>>

\* C23 as stated: in the scenario, from the start (0, 0), the path that plan
\* returns holds the door cell (5, 9), and the plan compiled of it has, in this
\* order, a Navigation step to the door cell, a Door step for the goal room and
\* the Scan step that ends it.
C23_DoorScenario ==
    (start_pos = <<0, 0>> /\ CompiledLast) =>
        /\ <<5, 9>> \in CellsOf(best_path)
        /\ \E i \in StepsOf("NavigationAgent"), j \in StepsOf("DoorAgent") :
              /\ i < j
              /\ plan[i].to.point = <<5, 9>>
              /\ plan[j].room = "Kitchen"
              /\ plan[Len(plan)].agent = "ScanAgent"

\* in the scenario the path ends on the door cell, which lies outside the bbox
\* of the goal room: no cell of the path is in a room, and the plan is the Scan
\* step alone, for no room
ScenarioEndsAtDoor ==
    (start_pos = <<0, 0>> /\ CompiledLast) =>
        /\ best_path[Len(best_path)] = <<5, 9>>
        /\ \A c \in CellsOf(best_path) : get_room_at(ScenarioRegistry, c[1], c[2]) = "None"
        /\ AgentsOf(plan) =
              IF include_wall THEN <<"WallAgent", "ScanAgent">> ELSE <<"ScanAgent">>
        /\ plan[Len(plan)].room = "None"

\* C26 as stated, for the planner loop: a call of plan, the first included,
\* that follows a change of unified_rooms.json or of house_map.txt is made
\* with the registry and the grid that the files hold by then.
C26_SnapshotFollowsFiles ==
    [][IsPlanCall =>
          /\ planner_rooms = unified_rooms.rooms
          /\ planner_grid = <<house_map.grid>>]_vars

\* the planner loads registry and grid once, before its loop: from then on
\* they stay what they were, whatever the files become
PlannerKeepsFirstSnapshot ==
    [][planner_pc = "loop" =>
          /\ planner_rooms' = planner_rooms
          /\ planner_grid' = planner_grid]_vars

\* the lines of the text that have the form "N. Activate <Agent> to <action>",
\* by their place in the text
StepLinesOf(content) ==
    LET HasForm(i) == LineMatches(content[i])
    IN  SelectSeq([i \in 1..Len(content) |-> i], HasForm)

\* C27: parse_mission_steps returns one step per line of the form
\* "N. Activate <Agent> to <action>", in the order of the lines, each with the
\* ordinal, the agent and the action of its line; the other lines add nothing
\* and take nothing away, wherever they stand.
C27_OneStepPerStepLine ==
    stage = "parsed" =>
        /\ Len(parsed) = Len(StepLinesOf(commands_txt))
        /\ \A k \in 1..Len(parsed) :
              /\ parsed[k].step_number = commands_txt[StepLinesOf(commands_txt)[k]].n
              /\ parsed[k].agent_type =
                    AgentTypeOf(commands_txt[StepLinesOf(commands_txt)[k]].toks[2])
              /\ parsed[k].action_description =
                    SubSeq(commands_txt[StepLinesOf(commands_txt)[k]].toks, 4,
                           Len(commands_txt[StepLinesOf(commands_txt)[k]].toks))

\* a line that is skipped stands before a line that is parsed
C27_Witness ==
    /\ stage = "parsed"
    /\ Len(commands_txt) = 2
    /\ commands_txt[1] \in OtherLines
    /\ commands_txt[2] \in StepLines
    /\ Len(parsed) = 1

\* the tick dispatched a Door step whose room has a door, no sub-agent being
\* active, and no call of the tick raised
DoorStepStarted == DoorStepWithDoor /\ active_agent = "none" /\ ~raised'

DeferredNavigationTick ==
    /\ DoorStepWithDoor
    /\ invoked' = "navigation_agent"
    /\ ~raised'
    /\ \/ active_agent = "none"
       \/ active_agent = "navigation_agent" /\ active_agent_type = "NAVIGATION"

\* C30 as stated: in every tick in which Navigation stands in for a Door step,
\* the goal handed to the Navigation sub-agent is the door coordinate of the
\* room of the step, and the cursor stays on the Door step.
C30_GoalIsTheDoor ==
    [][DeferredNavigationTick =>
          /\ goal_position' = get_door_position(DispatchedStep.target_location)
          /\ current_step_index' = dispatched']_vars

\* in those ticks execute_active_agent has replaced the goal by a tile of the
\* room, or by its center, before Navigation is called
DeferredGoalIsRoomTile ==
    [][DeferredNavigationTick =>
          /\ goal_position' = Center(room_data[door_key(DispatchedStep.target_location)].bbox)
          /\ current_step_index' = dispatched']_vars

\* the door coordinates that the registry declares for the room
DeclaredDoors(room_name) ==
    IF door_key(room_name) = "no_room" THEN {}
    ELSE IF room_data[door_key(room_name)].pairs
    THEN {room_data[door_key(room_name)].doors[i] :
            i \in 1..Len(room_data[door_key(room_name)].doors)}
    ELSE IF Len(room_data[door_key(room_name)].doors) = 2
    THEN {room_data[door_key(room_name)].doors}
    ELSE {}

\* the agent is within max_distance of one of the doors declared for the room
NearDeclaredDoor(current_pos, room_name, max_distance) ==
    \E d \in DeclaredDoors(room_name) :
        Abs(current_pos[1] - d[1]) + Abs(current_pos[2] - d[2]) <= max_distance

\* the tick dispatched a Door step for a room with declared doors, no
\* sub-agent being active
DoorStepForDeclaredDoors ==
    /\ HasDispatched
    /\ DispatchedStep.agent_type = "DOOR"
    /\ DispatchedStep.target_location # <<>>
    /\ DeclaredDoors(DispatchedStep.target_location) # {}
    /\ active_agent = "none"

\* C29 as stated: whether the registry declares the doors of a room as one
\* coordinate or as a list of coordinates, the door test of a tick on a Door
\* step ends without error and finds the agent near exactly when it is within
\* the threshold of the nearest of the doors declared: the Door sub-agent
\* computes the action then, and Navigation otherwise.
C29_NearestDeclaredDoor ==
    [][DoorStepForDeclaredDoors =>
          /\ ~raised'
          /\ IF NearDeclaredDoor(positions', DispatchedStep.target_location, NearDefault)
             THEN invoked' = "door_agent"
             ELSE invoked' = "navigation_agent"]_vars

\* what the door test does in each format: one coordinate is measured against;
\* a list of one coordinate counts as no door, the agent as near; a list of
\* two or more raises
DoorTestByFormat ==
    [][DoorStepForDeclaredDoors =>
          IF ~room_data[door_key(DispatchedStep.target_location)].pairs
          THEN /\ ~raised'
               /\ IF NearDeclaredDoor(positions', DispatchedStep.target_location,
                                      NearDefault)
                  THEN invoked' = "door_agent"
                  ELSE invoked' = "navigation_agent"
          ELSE IF Len(room_data[door_key(DispatchedStep.target_location)].doors) = 1
          THEN ~raised' /\ invoked' = "door_agent"
          ELSE raised' /\ invoked' = "none" /\ action' = "STAY"
                       /\ current_step_index' = dispatched']_vars

\* the sub-agent a step of the type is for ("none" for an Unknown step)
AgentFor(agent_type) ==
    CASE agent_type = "NAVIGATION" -> "navigation_agent"
      [] agent_type = "DOOR"       -> "door_agent"
      [] agent_type = "WALL"       -> "wall_agent"
      [] agent_type = "SCAN"       -> "scanner"
      [] OTHER                     -> "none"

\* the sub-agent that computed the action of the tick is the one the step
\* read is for, or the Navigation that goes before a Door step
DelegateMatchesStep ==
    (HasDispatched /\ invoked' # "none") =>
        \/ invoked' = AgentFor(DispatchedStep.agent_type)
        \/ /\ DispatchedStep.agent_type = "DOOR"
           /\ invoked' = "navigation_agent"

\* C31 as stated: whatever ticks, completions and mission replacements went
\* before, the sub-agent that computes the action of a tick on step s is the
\* one of the type of s, or the deferred Navigation of a Door step.
C31_DelegateOfStepType == [][DelegateMatchesStep]_vars

\* while one mission runs and is not replaced, the sub-agent that computes
\* the action is the one of the type of the step, or the deferred Navigation
DelegateOfStepTypeWithinMission == [][DelegateMatchesStep]_vars

\* the cell is one a_star enters: free, door or entry, and a door, an entry
\* or a cell of a room of the allow-list
Passable(grid, registry, allowed_rooms, c) ==
    /\ grid.code[c] \in {0, 3, 8}
    /\ \/ grid.code[c] \in {3, 8}
       \/ get_room_at(registry, c[1], c[2]) \in allowed_rooms

\* C32 as stated: every cell of a path a_star returns, the start cell
\* included, is free, door or entry and is a door or entry cell or lies in a
\* room of the allow-list.
C32_EveryCellPassable ==
    planner_pc = "searched" =>
        \A i \in 1..Len(best_path) :
            Passable(planner_grid[1], planner_rooms, AllowedRooms("Kitchen"),
                     best_path[i])

\* C32 amended: every cell after the start cell of a path a_star returns is
\* free, door or entry and is a door or entry cell or lies in a room of the
\* allow-list; the start cell is whatever cell the caller gave.
C32_CellsAfterStartPassable ==
    planner_pc = "searched" =>
        \A i \in 2..Len(best_path) :
            Passable(planner_grid[1], planner_rooms, AllowedRooms("Kitchen"),
                     best_path[i])

\* a path that leaves a room not to be crossed, goes through a door of the
\* wall and ends behind it
C32_Witness ==
    /\ planner_pc = "searched"
    /\ Len(best_path) >= 3
    /\ get_room_at(planner_rooms, start_pos[1], start_pos[2]) = "Bedroom"
    /\ planner_grid[1].code[best_path[2]] = 3
    /\ \E y \in 0..(GridH - 1) : planner_grid[1].code[<<1, y>>] = 1

\* the cells next to c, each with the cost of the move to it
Neighbours(grid, c) ==
    {<<n, IF n[1] # c[1] /\ n[2] # c[2] THEN DiagCost ELSE AxisCost>> :
        n \in {n \in Cells(grid.w, grid.h) :
                 /\ n # c
                 /\ Abs(n[1] - c[1]) <= 1
                 /\ Abs(n[2] - c[2]) <= 1}}

\* of the pairs <<cell, cost>>, those of least cost for their cell
Cheapest(pairs) ==
    {p \in pairs : \A q \in pairs : q[1] = p[1] => p[2] <= q[2]}

\* the pairs after one more move out of each of the cells reached
Spread(grid, registry, allowed_rooms, pairs) ==
    Cheapest(pairs \cup
             UNION {{<<n[1], p[2] + n[2]>> :
                        n \in {n \in Neighbours(grid, p[1]) :
                                 Passable(grid, registry, allowed_rooms, n[1])}}
                    : p \in pairs})

\* the cells that a valid path leads to from the start cell, each with the
\* least cost of such a path: a path is valid when every cell after the start
\* cell is one to enter.  pairs is spread until one more move adds nothing.
RECURSIVE LeastCosts(_, _, _, _, _)
LeastCosts(grid, registry, allowed_rooms, pairs, next) ==
    IF next = pairs THEN pairs
    ELSE LeastCosts(grid, registry, allowed_rooms, next,
                    Spread(grid, registry, allowed_rooms, next))

NoPathBehindWall ==
    /\ planner_pc = "searched"
    /\ best_path = <<>>
    /\ start_pos[1] = 0 /\ goal_cell[1] = 2
    /\ planner_grid[1].code[goal_cell] = 0

\* the diagonal moves of a path
DiagonalMoves(path) ==
    Cardinality({i \in 1..(Len(path) - 1) :
                    path[i][1] # path[i + 1][1] /\ path[i][2] # path[i + 1][2]})

\* by how much h of a diagonal step exceeds the cost of the diagonal move,
\* with the last decimal that h is cut to
DiagonalSlack == h(<<0, 0>>, <<1, 1>>) - DiagCost + 1

\* C34 as stated: h is consistent, h(a, t) <= cost(a, b) + h(b, t) for the
\* cells b next to a, that is, no entry a_star pushes in the first pass has
\* an f less than h of the start cell; and h is admissible, h(a, t) is at
\* most the least cost of a path from a to t.
C34_ConsistentAndAdmissible ==
    /\ expanded # <<>> =>
          \A e \in expanded[1] : h(start_pos, goal_cell) <= e[1]
    /\ (planner_pc = "searched" /\ best_path # <<>>) =>
          h(start_pos, goal_cell) <= PathCost(best_path)

\* C34 amended: h(a, t) <= cost(a, b) + h(b, t) for the axis moves from a to
\* b; for a diagonal move h(a, t) exceeds cost(a, b) + h(b, t) by less than
\* 0.0003 at most, and h(a, t) exceeds the least cost of a path from a to t
\* by less than 0.0003 for each diagonal move of the path at most.
C34_ConsistentUpToDiagonalSlack ==
    /\ expanded # <<>> =>
          \A e \in expanded[1] :
              h(start_pos, goal_cell)
                 <= e[1] + (IF e[2] = DiagCost THEN DiagonalSlack ELSE 0)
    /\ (planner_pc = "searched" /\ best_path # <<>>) =>
          h(start_pos, goal_cell)
             <= PathCost(best_path) + DiagonalSlack * DiagonalMoves(best_path)

\* the target is one diagonal move away: the f of the entry pushed for it and
\* the cost of the path to it are both less than h of the start cell
C34_Witness ==
    /\ expanded # <<>>
    /\ planner_pc = "searched"
    /\ Len(best_path) = 2
    /\ PathCost(best_path) = DiagCost
    /\ <<DiagCost, DiagCost, goal_cell>> \in expanded[1]
    /\ h(start_pos, goal_cell) > DiagCost

\* the tags of a change of room
ChangeTags == {"exit_room", "enter_room", "enter_hallway"}

\* C35: of any two consecutive waypoints whose rooms differ at least one is
\* tagged exit_room, enter_room or enter_hallway; a waypoint of an arrival is
\* tagged enter_hallway when the name of the room entered holds "hall",
\* whatever the case of its letters, and enter_room otherwise.
C35_ChangeOfRoomTagged ==
    \A k \in 1..Len(compiled) :
        /\ \A i \in 1..(Len(compiled[k].waypoints) - 1) :
              compiled[k].waypoints[i].room # compiled[k].waypoints[i + 1].room =>
                  \/ compiled[k].waypoints[i].type \in ChangeTags
                  \/ compiled[k].waypoints[i + 1].type \in ChangeTags
        /\ \A i \in 1..Len(compiled[k].waypoints) :
              compiled[k].waypoints[i].type \in Entering =>
                  (compiled[k].waypoints[i].type = "enter_hallway"
                      <=> compiled[k].waypoints[i].room = "Hallway")

\* a path from the Kitchen through the Hallway into the Bedroom, compiled: the
\* waypoints of the two arrivals are tagged enter_hallway and enter_room
C35_Witness ==
    /\ compiled # <<>>
    /\ Len(compiled[1].waypoints) = 6
    /\ compiled[1].waypoints[1].room = "Kitchen"
    /\ compiled[1].waypoints[3].type = "enter_hallway"
    /\ compiled[1].waypoints[3].room = "Hallway"
    /\ compiled[1].waypoints[5].type = "enter_room"
    /\ compiled[1].waypoints[5].room = "Bedroom"
    /\ compiled[1].waypoints[5].room # compiled[1].waypoints[4].room

\* the names of a fresh tile manager
ReservedNames == DOMAIN TilesFresh.tile_registry

\* the reserved codes: those of a fresh tile manager (free space, wall,
\* camera, door) and the entry code of the planner
ReservedCodes == {TilesFresh.tile_registry[n] : n \in ReservedNames} \cup WALKABLE

\* name-to-code and code-to-name are inverse to each other
TablesInverse ==
    /\ \A n \in DOMAIN tiles.tile_registry :
          /\ tiles.tile_registry[n] \in DOMAIN tiles.id_to_name
          /\ tiles.id_to_name[tiles.tile_registry[n]] = n
    /\ \A c \in DOMAIN tiles.id_to_name :
          /\ tiles.id_to_name[c] \in DOMAIN tiles.tile_registry
          /\ tiles.tile_registry[tiles.id_to_name[c]] = c

\* a name keeps the code it has
CodesKept ==
    \A n \in DOMAIN tiles.tile_registry :
        n \in DOMAIN tiles'.tile_registry
           /\ tiles'.tile_registry[n] = tiles.tile_registry[n]

\* C36 as stated: after any calls of get_tile_type and get_overlap_tile_type
\* on a fresh tile manager no name registered by a call holds a reserved code
\* (free space, wall, camera, door, entry), so none holds a code the planner
\* walks on (0, 3, 8); a name keeps its code; the two tables are inverse to
\* each other.
C36_NoReservedCodeRegistered ==
    /\ [](/\ \A n \in DOMAIN tiles.tile_registry \ ReservedNames :
                tiles.tile_registry[n] \notin ReservedCodes
          /\ TablesInverse)
    /\ [][CodesKept]_vars

\* a name keeps its code, the tables stay inverse to each other, and no name
\* registered by a call holds one of the codes 0 to 3
TileTablesAppendOnly ==
    /\ [](/\ \A n \in DOMAIN tiles.tile_registry \ ReservedNames :
                tiles.tile_registry[n] \notin 0..3
          /\ TablesInverse)
    /\ [][CodesKept]_vars

\* the fifth name registered holds the entry code
EntryCodeRegistered ==
    \E n \in DOMAIN tiles.tile_registry \ ReservedNames :
        tiles.tile_registry[n] = 8 /\ IsOverlapName(n)

\* C37: after any ticks, mission loads and resets of the executor the cursor
\* lies between 0 and the number of steps, and a step of the current mission
\* is completed exactly when it lies before the cursor, so that the
\* completed_steps metric equals the cursor.
C37_CompletedBelowCursor ==
    /\ 0 <= current_step_index
    /\ current_step_index <= Len(mission_steps)
    /\ \A i \in 1..Len(mission_steps) :
          mission_steps[i].completed <=> (i <= current_step_index)

\* the last step of a loaded mission is completed: the cursor stands behind it
C37_Witness ==
    /\ mission_loaded
    /\ mission_steps # <<>>
    /\ current_step_index = Len(mission_steps)
    /\ mission_steps[current_step_index].completed

\* C38: a path a_star returns that is not empty starts at the start cell,
\* ends at the target cell, moves from each cell to one of its eight
\* neighbours inside the grid and visits no cell twice; with the start equal
\* to the target it is the path of that one cell.
C38_PathShape ==
    planner_pc = "searched" =>
        /\ best_path # <<>> =>
              /\ best_path[1] = start_pos
              /\ best_path[Len(best_path)] = goal_cell
              /\ IsWalk(planner_grid[1], best_path)
              /\ \A i, j \in 1..Len(best_path) : best_path[i] = best_path[j] => i = j
        /\ start_pos = goal_cell => best_path = <<start_pos>>

\* a path of three cells or more that leaves the row of its two ends
C38_Witness ==
    /\ planner_pc = "searched"
    /\ Len(best_path) >= 3
    /\ start_pos[2] = goal_cell[2]
    /\ \E i \in 1..Len(best_path) : best_path[i][2] # start_pos[2]

\* the search of a wall cell for itself returns that cell
OneCellPathOnWall ==
    /\ planner_pc = "searched"
    /\ start_pos = goal_cell
    /\ best_path = <<start_pos>>
    /\ planner_grid[1].code[start_pos] \notin WALKABLE

\* the plans main builds of the contents of planned_path.json
WholePlans == {build_agent_plan(w, target, include_wall) : w \in WriterPaths}

\* C39 as stated: a reader never sees a partly written agent_commands.json or
\* agent_commands.txt, and at every instant the text file is plan_to_text of
\* the plan in the JSON file: never one file of the new plan with the other
\* of the plan before.
C39_FilesInLockstepAlways ==
    /\ seen # <<>> =>
          /\ seen[1].json \in WholePlans
          /\ seen[1].txt = plan_to_text(seen[1].json)
    /\ commands_json # <<>> => commands_txt = plan_to_text(commands_json[1])

\* C39: a reader never sees a partly written agent_commands.json or
\* agent_commands.txt: the JSON file holds a whole plan and the text file
\* is empty or the text of a whole plan; outside of the stretch of a pass
\* between the replacement of the JSON file and that of the text file, the
\* text file is plan_to_text of the plan in the JSON file.
C39_WholeFilesLockstepAfterPass ==
    /\ seen # <<>> =>
          /\ seen[1].json \in WholePlans
          /\ seen[1].txt = <<>> \/ \E p \in WholePlans : seen[1].txt = plan_to_text(p)
    /\ commands_json # <<>> /\ stage # "text" =>
          commands_txt = plan_to_text(commands_json[1])

\* a reader sees the JSON file of the new plan beside the text file of the
\* plan before, while a later temporary file is half written
C39_Witness ==
    /\ seen # <<>>
    /\ seen[1].txt # <<>>
    /\ seen[1].txt # plan_to_text(seen[1].json)
    /\ tmp_json.exists
    /\ tmp_json.text # <<>>
    /\ tmp_json.text # plan

====
